---- MODULE Spec2Model ----
(***************************************************************************)
(* A model of the christtasks RAG chat backend:                            *)
(*   - the durable quota ledger, app/services/rate_limiting_service.py     *)
(*     over the user_usage table of app/models/user_usage.py;              *)
(*   - the /chat request pipeline of app/routes/chat.py with its           *)
(*     in-memory counters;                                                 *)
(*   - the vector-store gateway, app/services/pinecone_service.py.         *)
(*                                                                         *)
(* Time is the UTC calendar: a date is a day index, and the only parts of  *)
(* a datetime the code ever reads are its date and its (year, month).      *)
(***************************************************************************)
EXTENDS Integers, Sequences, FiniteSets, TLC

(***************************************************************************)
(* Bounds of the model.                                                    *)
(***************************************************************************)
\* Days in a calendar month (day indices d with the same d \div DaysPerMonth).
DaysPerMonth == 31
\* How many midnights the clock may pass after the first day of a run.
Horizon == 2
\* increment_usage calls made in one multi-day run of the ledger.
MaxIncr == 2
\* How far above daily_limit a day's increment_usage calls may go.
MaxOver == 1
\* /chat requests answered in one run of the pipeline.
MaxServed == 2
\* Words a generated text may have beyond max_words.
MaxExtra == 100

\* The first day of a run is the last but one day of a month, so that a
\* day boundary inside the month and a month boundary both lie within Horizon.
StartDay == DaysPerMonth - 2
MaxDay == StartDay + Horizon
Days == 0..MaxDay

(***************************************************************************)
(* Program constants.                                                      *)
(***************************************************************************)
daily_limit == 25
monthly_limit == 750

DailyMessage == "Daily limit of 25 messages exceeded. Try again tomorrow."
MonthlyMessage == "Monthly limit of 750 messages exceeded. Limit resets next month."
AllowedMessage == "Request allowed"

(***************************************************************************)
(* datetime: .date() is the day index, (.year, .month) the month index.    *)
(***************************************************************************)
DateOf(t) == t
YearMonth(t) == t \div DaysPerMonth

(***************************************************************************)
(* Callers and their hashed ids.                                           *)
(***************************************************************************)
Identifiers == {"10.0.0.1", "10.0.0.2"}

\* hashlib.sha256(user_identifier.encode()).hexdigest()[:16]
_get_user_hash(user_identifier) ==
    CASE user_identifier = "10.0.0.1" -> "f5047344122f0dee"
      [] user_identifier = "10.0.0.2" -> "cb5f37b4762871e6"
      [] OTHER -> "0000000000000000"

UserIds == {_get_user_hash(i) : i \in Identifiers}

VARIABLES
    clock,      \* datetime.utcnow(), as a day index
    table,      \* the user_usage table: the committed rows, in row-id order
    lastCall,   \* the last ledger call: its arguments, clock reads and return
    incToday,   \* per user id: increment_usage calls of the current UTC day
    nIncr,      \* increment_usage calls made so far
    USAGE,      \* chat.py: user key -> its "day" and "month" counters
    LAST_RESET_DAY,     \* chat.py: the day of the last daily reset
    LAST_RESET_MONTH,   \* chat.py: the month of the last monthly reset
    chat,       \* the /chat request being handled: its position and locals
    pine,       \* the PineconeService instance: pc, index, _initialized
    nServed,    \* /chat requests answered so far
    completion, \* the last get_chat_completion call: the content it got, its result
    identity,   \* the last _get_user_key call: the request and the outcome
    sessions,   \* per database session: the ledger call it is in, its loaded object
    preview,    \* the last source entry built: the document and the entry
    store,      \* the calls made on the PineconeService so far, and the last one
    chunker     \* the chunk_text call being run: its arguments and locals

ledgerVars == <<table, lastCall, incToday, nIncr>>
chatVars == <<USAGE, LAST_RESET_DAY, LAST_RESET_MONTH, chat, pine, nServed>>
composeVars == <<completion, identity>>
unitVars == <<sessions, preview, store, chunker>>
vars == <<clock, ledgerVars, chatVars, composeVars, unitVars>>

(***************************************************************************)
(* UserUsage rows.                                                         *)
(***************************************************************************)
UserUsage(user_id, daily, monthly, last_reset) ==
    [user_id |-> user_id,
     daily_message_count |-> daily,
     monthly_message_count |-> monthly,
     last_reset_date |-> last_reset]

NoCall == [op |-> "none"]

ZeroCounts == [u \in UserIds |-> 0]

\* Variant: the query without its filter, the first row of the table.
FirstRowUnfiltered(tbl, user_id) ==
    IF \E i \in 1..Len(tbl) : tbl[i].user_id = user_id THEN 1 ELSE 0

\* db.query(UserUsage).filter(UserUsage.user_id == user_id).first():
\* the row id of the first matching row, 0 when there is none.
FirstRow(tbl, user_id) ==
    LET hits == {i \in 1..Len(tbl) : tbl[i].user_id = user_id}
    IN IF hits = {} THEN 0 ELSE CHOOSE i \in hits : \A j \in hits : i <= j

\* Variant: the new record already counts the request that created it.
_get_or_create_counting_first(tbl, user_id, now) ==
    LET i == FirstRow(tbl, user_id)
    IN IF i = 0
       THEN [table |-> Append(tbl, UserUsage(user_id, 1, 1, now)),
             row |-> Len(tbl) + 1,
             created |-> TRUE]
       ELSE [table |-> tbl, row |-> i, created |-> FALSE]

\* The table after the call and the row id of the record it returns.
_get_or_create_user_usage(tbl, user_id, now) ==
    LET i == FirstRow(tbl, user_id)
    IN IF i = 0
       THEN [table |-> Append(tbl, UserUsage(user_id, 0, 0, now)),
             row |-> Len(tbl) + 1,
             created |-> TRUE]
       ELSE [table |-> tbl, row |-> i, created |-> FALSE]

\* Variant: the daily reset compares months where the code compares dates.
_reset_daily_count_by_month(user_usage, now) ==
    IF YearMonth(user_usage.last_reset_date) < YearMonth(now)
    THEN [usage |-> [user_usage EXCEPT !.daily_message_count = 0,
                                       !.last_reset_date = now],
          reset |-> TRUE]
    ELSE [usage |-> user_usage, reset |-> FALSE]

\* The record after the call and the boolean the call returns.
_reset_daily_count_if_needed(user_usage, now) ==
    IF DateOf(user_usage.last_reset_date) < DateOf(now)
    THEN [usage |-> [user_usage EXCEPT !.daily_message_count = 0,
                                       !.last_reset_date = now],
          reset |-> TRUE]
    ELSE [usage |-> user_usage, reset |-> FALSE]

_reset_monthly_count_if_needed(user_usage, now) ==
    IF YearMonth(user_usage.last_reset_date) < YearMonth(now)
    THEN [usage |-> [user_usage EXCEPT !.monthly_message_count = 0],
          reset |-> TRUE]
    ELSE [usage |-> user_usage, reset |-> FALSE]

usage_info(user_usage) ==
    [daily_used |-> user_usage.daily_message_count,
     daily_limit |-> daily_limit,
     monthly_used |-> user_usage.monthly_message_count,
     monthly_limit |-> monthly_limit]

\* Variant: the limits are compared with > where the code has >=.
DecisionStrict(user_usage) ==
    IF user_usage.daily_message_count > daily_limit
    THEN <<FALSE, DailyMessage, usage_info(user_usage)>>
    ELSE IF user_usage.monthly_message_count > monthly_limit
         THEN <<FALSE, MonthlyMessage, usage_info(user_usage)>>
         ELSE <<TRUE, AllowedMessage, usage_info(user_usage)>>

\* Variant: the monthly limit is looked at before the daily one.
DecisionMonthlyFirst(user_usage) ==
    IF user_usage.monthly_message_count >= monthly_limit
    THEN <<FALSE, MonthlyMessage, usage_info(user_usage)>>
    ELSE IF user_usage.daily_message_count >= daily_limit
         THEN <<FALSE, DailyMessage, usage_info(user_usage)>>
         ELSE <<TRUE, AllowedMessage, usage_info(user_usage)>>

\* Lines 72-99: the admission decision on the record as read back.
Decision(user_usage) ==
    IF user_usage.daily_message_count >= daily_limit
    THEN <<FALSE, DailyMessage, usage_info(user_usage)>>
    ELSE IF user_usage.monthly_message_count >= monthly_limit
         THEN <<FALSE, MonthlyMessage, usage_info(user_usage)>>
         ELSE <<TRUE, AllowedMessage, usage_info(user_usage)>>

\* The ghost counter after a call that read the clock last at now2 and, for an
\* increment, read it at now1 when it decided which day the message belongs to.
CountAfter(counts, now1, now2, user_id, added) ==
    LET atRead == IF now1 = clock THEN counts ELSE ZeroCounts
        stamped == [atRead EXCEPT ![user_id] = @ + added]
    IN IF now2 = now1 THEN stamped ELSE ZeroCounts

\* What a check_rate_limit remembers of the call before it, when that call was
\* a check_rate_limit of the same caller and every clock read of the two calls
\* fell on one day: its return value, whether it rolled a counter over, and
\* the caller's record as it left it.
PriorCheck(user_identifier, now1, now2) ==
    IF /\ lastCall.op = "check"
       /\ lastCall.user_identifier = user_identifier
       /\ lastCall.now1 = lastCall.now2
       /\ lastCall.now2 = now1
       /\ now1 = now2
    THEN [seen |-> TRUE,
          ret |-> lastCall.ret,
          reset |-> lastCall.reset,
          stored |-> table[FirstRow(table, _get_user_hash(user_identifier))]]
    ELSE [seen |-> FALSE]

\* Variant: the decision is taken on the record as loaded, before the resets.
check_rate_limit_stale_decision(user_identifier, now1, now2) ==
    LET user_id == _get_user_hash(user_identifier)
        got == _get_or_create_user_usage(table, user_id, clock)
        loaded == got.table[got.row]
        daily == _reset_daily_count_if_needed(loaded, now1)
        monthly == _reset_monthly_count_if_needed(daily.usage, now2)
        committed == IF daily.reset \/ monthly.reset
                     THEN [got.table EXCEPT ![got.row] = monthly.usage]
                     ELSE got.table
    IN /\ table' = committed
       /\ clock' = now2
       /\ lastCall' = [op |-> "check",
                       user_identifier |-> user_identifier,
                       now1 |-> now1, now2 |-> now2,
                       created |-> got.created,
                       before |-> loaded,
                       reset |-> [daily |-> daily.reset, monthly |-> monthly.reset],
                       prior |-> PriorCheck(user_identifier, now1, now2),
                       ret |-> Decision(loaded)]
       /\ incToday' = CountAfter(incToday, now1, now2, user_id, 0)
       /\ UNCHANGED nIncr

\* Variant: a denied call rolls its session back, so what the resets changed
\* is committed only when the call is allowed.
check_rate_limit_commit_if_allowed(user_identifier, now1, now2) ==
    LET user_id == _get_user_hash(user_identifier)
        got == _get_or_create_user_usage(table, user_id, clock)
        loaded == got.table[got.row]
        daily == _reset_daily_count_if_needed(loaded, now1)
        monthly == _reset_monthly_count_if_needed(daily.usage, now2)
        ret == Decision(monthly.usage)
        committed == IF (daily.reset \/ monthly.reset) /\ ret[1]
                     THEN [got.table EXCEPT ![got.row] = monthly.usage]
                     ELSE got.table
    IN /\ table' = committed
       /\ clock' = now2
       /\ lastCall' = [op |-> "check",
                       user_identifier |-> user_identifier,
                       now1 |-> now1, now2 |-> now2,
                       created |-> got.created,
                       before |-> loaded,
                       reset |-> [daily |-> daily.reset, monthly |-> monthly.reset],
                       prior |-> PriorCheck(user_identifier, now1, now2),
                       ret |-> ret]
       /\ incToday' = CountAfter(incToday, now1, now2, user_id, 0)
       /\ UNCHANGED nIncr

(***************************************************************************)
(* RateLimitingService.check_rate_limit.  The record is created with the   *)
(* clock as it stands; now1 and now2 are the later reads of utcnow() in    *)
(* the daily and the monthly reset.                                        *)
(***************************************************************************)
check_rate_limit(user_identifier, now1, now2) ==
    LET user_id == _get_user_hash(user_identifier)
        got == _get_or_create_user_usage(table, user_id, clock)
        loaded == got.table[got.row]
        daily == _reset_daily_count_if_needed(loaded, now1)
        monthly == _reset_monthly_count_if_needed(daily.usage, now2)
        committed == IF daily.reset \/ monthly.reset
                     THEN [got.table EXCEPT ![got.row] = monthly.usage]
                     ELSE got.table
    IN /\ table' = committed
       /\ clock' = now2
       /\ lastCall' = [op |-> "check",
                       user_identifier |-> user_identifier,
                       now1 |-> now1, now2 |-> now2,
                       created |-> got.created,
                       before |-> loaded,
                       reset |-> [daily |-> daily.reset, monthly |-> monthly.reset],
                       prior |-> PriorCheck(user_identifier, now1, now2),
                       ret |-> Decision(committed[got.row])]
       /\ incToday' = CountAfter(incToday, now1, now2, user_id, 0)
       /\ UNCHANGED nIncr

\* Variant: increment_usage without the two rollover calls before it adds.
increment_usage_no_rollover(user_identifier, now1, now2) ==
    LET user_id == _get_user_hash(user_identifier)
        got == _get_or_create_user_usage(table, user_id, clock)
        loaded == got.table[got.row]
        bumped == [loaded EXCEPT !.daily_message_count = @ + 1,
                                 !.monthly_message_count = @ + 1]
    IN /\ table' = [got.table EXCEPT ![got.row] = bumped]
       /\ clock' = now2
       /\ lastCall' = [op |-> "increment",
                       user_identifier |-> user_identifier,
                       now1 |-> now1, now2 |-> now2,
                       created |-> got.created,
                       before |-> loaded,
                       ret |-> "None"]
       /\ incToday' = CountAfter(incToday, now1, now2, user_id, 1)
       /\ nIncr' = nIncr + 1

(***************************************************************************)
(* RateLimitingService.increment_usage.                                    *)
(***************************************************************************)
increment_usage(user_identifier, now1, now2) ==
    LET user_id == _get_user_hash(user_identifier)
        got == _get_or_create_user_usage(table, user_id, clock)
        loaded == got.table[got.row]
        daily == _reset_daily_count_if_needed(loaded, now1)
        monthly == _reset_monthly_count_if_needed(daily.usage, now2)
        bumped == [monthly.usage EXCEPT !.daily_message_count = @ + 1,
                                        !.monthly_message_count = @ + 1]
    IN /\ table' = [got.table EXCEPT ![got.row] = bumped]
       /\ clock' = now2
       /\ lastCall' = [op |-> "increment",
                       user_identifier |-> user_identifier,
                       now1 |-> now1, now2 |-> now2,
                       created |-> got.created,
                       before |-> loaded,
                       ret |-> "None"]
       /\ incToday' = CountAfter(incToday, now1, now2, user_id, 1)
       /\ nIncr' = nIncr + 1

(***************************************************************************)
(* RateLimitingService.get_usage_stats: the resets act on the loaded       *)
(* object only; nothing but a newly created record is committed.           *)
(***************************************************************************)
Max(a, b) == IF a >= b THEN a ELSE b

\* Variant: the counts are reported as loaded, without the two resets.
get_usage_stats_no_rollover(user_identifier, now1, now2) ==
    LET user_id == _get_user_hash(user_identifier)
        got == _get_or_create_user_usage(table, user_id, clock)
        u == got.table[got.row]
    IN /\ table' = got.table
       /\ clock' = now2
       /\ lastCall' = [op |-> "stats",
                       user_identifier |-> user_identifier,
                       now1 |-> now1, now2 |-> now2,
                       created |-> got.created,
                       before |-> u,
                       ret |-> [daily_used |-> u.daily_message_count,
                                daily_remaining |->
                                    Max(0, daily_limit - u.daily_message_count),
                                daily_limit |-> daily_limit,
                                monthly_used |-> u.monthly_message_count,
                                monthly_remaining |->
                                    Max(0, monthly_limit - u.monthly_message_count),
                                monthly_limit |-> monthly_limit]]
       /\ incToday' = CountAfter(incToday, now1, now2, user_id, 0)
       /\ UNCHANGED nIncr

get_usage_stats(user_identifier, now1, now2) ==
    LET user_id == _get_user_hash(user_identifier)
        got == _get_or_create_user_usage(table, user_id, clock)
        loaded == got.table[got.row]
        daily == _reset_daily_count_if_needed(loaded, now1)
        monthly == _reset_monthly_count_if_needed(daily.usage, now2)
        u == monthly.usage
    IN /\ table' = got.table
       /\ clock' = now2
       /\ lastCall' = [op |-> "stats",
                       user_identifier |-> user_identifier,
                       now1 |-> now1, now2 |-> now2,
                       created |-> got.created,
                       before |-> loaded,
                       ret |-> [daily_used |-> u.daily_message_count,
                                daily_remaining |->
                                    Max(0, daily_limit - u.daily_message_count),
                                daily_limit |-> daily_limit,
                                monthly_used |-> u.monthly_message_count,
                                monthly_remaining |->
                                    Max(0, monthly_limit - u.monthly_message_count),
                                monthly_limit |-> monthly_limit]]
       /\ incToday' = CountAfter(incToday, now1, now2, user_id, 0)
       /\ UNCHANGED nIncr

(***************************************************************************)
(* Python values.  An optional string is a record; an exception is a       *)
(* record of its class and of what str() gives for it.                     *)
(***************************************************************************)
None == [is_none |-> TRUE, str |-> ""]
Str(s) == [is_none |-> FALSE, str |-> s]
Truthy(opt) == ~opt.is_none /\ opt.str # ""

Char(s, i) == SubSeq(s, i, i)
IsSpace(c) == c \in {" ", "\t", "\n"}

\* str.split(): the maximal runs of non-whitespace characters, in order.
RECURSIVE WordEnd(_, _)
WordEnd(s, i) ==
    IF i < Len(s) /\ ~IsSpace(Char(s, i + 1)) THEN WordEnd(s, i + 1) ELSE i

\* The words that start at the positions lo..hi of s.
RECURSIVE SplitRange(_, _, _)
SplitRange(s, lo, hi) ==
    IF lo > hi THEN <<>>
    ELSE IF lo = hi
         THEN IF ~IsSpace(Char(s, lo)) /\ (lo = 1 \/ IsSpace(Char(s, lo - 1)))
              THEN <<SubSeq(s, lo, WordEnd(s, lo))>>
              ELSE <<>>
         ELSE LET mid == (lo + hi) \div 2
              IN SplitRange(s, lo, mid) \o SplitRange(s, mid + 1, hi)

split(s) == SplitRange(s, 1, Len(s))

\* " ".join(words[lo..hi])
RECURSIVE JoinRange(_, _, _)
JoinRange(words, lo, hi) ==
    IF lo > hi THEN ""
    ELSE IF lo = hi THEN words[lo]
         ELSE LET mid == (lo + hi) \div 2
              IN JoinRange(words, lo, mid) \o " " \o JoinRange(words, mid + 1, hi)

\* " ".join(words[:n])
JoinFirst(words, n) == JoinRange(words, 1, n)

\* str.rfind(c): the highest 0-based index of c, -1 when there is none.
rfind(s, c) ==
    LET hits == {i \in 1..Len(s) : Char(s, i) = c}
    IN IF hits = {} THEN -1 ELSE (CHOOSE i \in hits : \A j \in hits : j <= i) - 1

\* str.split(",")[0]
RECURSIVE UpToComma(_, _)
UpToComma(s, i) ==
    IF i > Len(s) \/ Char(s, i) = "," THEN SubSeq(s, 1, i - 1) ELSE UpToComma(s, i + 1)

\* str.strip()
RECURSIVE lstrip(_)
lstrip(s) == IF s # "" /\ IsSpace(Char(s, 1)) THEN lstrip(SubSeq(s, 2, Len(s))) ELSE s
RECURSIVE rstrip(_)
rstrip(s) ==
    IF s # "" /\ IsSpace(Char(s, Len(s))) THEN rstrip(SubSeq(s, 1, Len(s) - 1)) ELSE s
strip(s) == lstrip(rstrip(s))

\* s * n
RECURSIVE Repeat(_, _)
Repeat(s, n) ==
    IF n = 0 THEN ""
    ELSE LET half == Repeat(s, n \div 2)
         IN half \o half \o (IF n % 2 = 1 THEN s ELSE "")

HTTPException(status_code, detail) ==
    [class |-> "HTTPException", status_code |-> status_code, detail |-> detail,
     str |-> IF status_code = 429 THEN "429: " \o detail ELSE "500: " \o detail]
Exception(message) ==
    [class |-> "Exception", status_code |-> 0, detail |-> "", str |-> message]
AttributeError(message) ==
    [class |-> "AttributeError", status_code |-> 0, detail |-> "", str |-> message]
ValidationError(message) ==
    [class |-> "ValidationError", status_code |-> 0, detail |-> "", str |-> message]
NoException == [class |-> "", status_code |-> 0, detail |-> "", str |-> ""]

(***************************************************************************)
(* OpenAIService._truncate_to_word_limit, on an optional string.           *)
(***************************************************************************)
max_words == 300

\* Variant: a text of exactly the limit is truncated too.
_truncate_to_word_limit_strict(text, limit) ==
    IF ~Truthy(text) THEN text
    ELSE LET words == split(text.str)
         IN IF Len(words) < limit THEN text
            ELSE LET truncated == JoinFirst(words, limit)
                     last_period == rfind(truncated, ".")
                 IN IF last_period >= (limit * 6) \div 10
                    THEN Str(SubSeq(truncated, 1, last_period + 1))
                    ELSE Str(truncated)

_truncate_to_word_limit(text, limit) ==
    IF ~Truthy(text) THEN text
    ELSE LET words == split(text.str)
         IN IF Len(words) <= limit THEN text
            ELSE LET truncated == JoinFirst(words, limit)
                     last_period == rfind(truncated, ".")
                 IN IF last_period >= (limit * 6) \div 10
                    THEN Str(SubSeq(truncated, 1, last_period + 1))
                    ELSE Str(truncated)

(***************************************************************************)
(* The remote capabilities.  What a provider answers is the environment's  *)
(* choice: each call returns one of a few values or raises.                *)
(***************************************************************************)
ProviderError == "Connection error."

\* client.embeddings.create, as get_embeddings wraps it.
EmbedOutcomes ==
    {[raises |-> FALSE, exc |-> NoException],
     [raises |-> TRUE,
      exc |-> Exception("Error generating embeddings: " \o ProviderError)]}

ShortAnswer == "God is one being in three persons. See Matthew 28:19."
LongAnswer == Repeat("so ", max_words) \o "Amen."

\* response.choices[0].message.content
Contents == {None, Str(""), Str(ShortAnswer), Str(LongAnswer)}

\* The answers get_chat_completion returns for them.
Truncated == [c \in Contents |-> _truncate_to_word_limit(c, max_words)]

\* client.chat.completions.create, as get_chat_completion wraps it.
ChatOutcomes ==
    {[raises |-> FALSE, exc |-> NoException, answer |-> Truncated[c]] : c \in Contents}
    \cup {[raises |-> TRUE,
           exc |-> Exception("Error generating chat completion: " \o ProviderError),
           answer |-> None]}

(***************************************************************************)
(* Generated texts: n words "word", a full stop after the words of stops,  *)
(* the word at position inner replaced by one with a full stop inside it,  *)
(* and possibly a newline at the end.                                      *)
(***************************************************************************)
Word(k, stops, inner) ==
    (IF k = inner THEN "3.16" ELSE "word") \o (IF k \in stops THEN "." ELSE "")

GenText(n, stops, inner, tail) ==
    JoinRange([k \in 1..n |-> Word(k, stops, inner)], 1, n) \o tail

Lengths == {0, 1, max_words - 1, max_words, max_words + 1, max_words + MaxExtra}
Stops == {35, 36, 100, 179, 180, 290, max_words, max_words + 1}
Inners == {0, 295}
Tails == {"", "\n"}

GeneratedContents ==
    {None}
    \cup {Str(GenText(n, stops, inner, tail)) :
             n \in Lengths, stops \in {{}} \cup {{p} : p \in Stops},
             inner \in Inners, tail \in Tails}

\* settings.max_tokens, int(os.getenv("MAX_TOKENS", "500")): the values an
\* operator may have configured.
DefaultMaxTokens == 500
TokenFloor == 480
MaxTokenSettings ==
    {-1, 0, TokenFloor - 1, TokenFloor, TokenFloor + 1, DefaultMaxTokens}

\* Variant: the configured value is passed on as it is.
max_tokens_to_use_unclamped(max_tokens) == max_tokens

\* Line 116: max(int(self.max_tokens), 480)
max_tokens_to_use(max_tokens) ==
    IF max_tokens >= TokenFloor THEN max_tokens ELSE TokenFloor

NoCompletion ==
    [pc |-> "none", exc |-> NoException, content |-> None, answer |-> None,
     configured |-> DefaultMaxTokens, max_tokens |-> 0]

\* _truncate_to_word_limit(content, max_words=300) of each generated text.
Returned == [c \in GeneratedContents |-> _truncate_to_word_limit(c, max_words)]

\* get_chat_completion: the content the provider answered and what the method
\* returns for it, or the exception it raises when the provider call fails.
\* configured is self.max_tokens, max_tokens the argument of the provider call.
get_chat_completion(configured, content, raises) ==
    IF raises
    THEN [pc |-> "raised",
          exc |-> Exception("Error generating chat completion: " \o ProviderError),
          content |-> None, answer |-> None,
          configured |-> configured, max_tokens |-> max_tokens_to_use(configured)]
    ELSE [pc |-> "returned", exc |-> NoException, content |-> content,
          answer |-> Returned[content],
          configured |-> configured, max_tokens |-> max_tokens_to_use(configured)]

(***************************************************************************)
(* OpenAIService.chunk_text.  An argument is an int or None; text[a:b] is  *)
(* Python's slice: a negative index counts from the end, and both ends are *)
(* clamped to the text.                                                    *)
(***************************************************************************)
settings_chunk_size == 1000
settings_chunk_overlap == 200

NoInt == [is_none |-> TRUE, int |-> 0]
Int_(n) == [is_none |-> FALSE, int |-> n]

Min(a, b) == IF a <= b THEN a ELSE b

SliceIndex(i, n) == IF i < 0 THEN Max(i + n, 0) ELSE Min(i, n)

Slice(s, start, end) ==
    LET lo == SliceIndex(start, Len(s))
        hi == SliceIndex(end, Len(s))
    IN IF lo >= hi THEN "" ELSE SubSeq(s, lo + 1, hi)

NoChunker ==
    [pc |-> "idle", text |-> "", chunk_size |-> 0, overlap |-> 0, start |-> 0,
     chunks |-> <<>>, starts |-> <<>>]

\* Lines 131-137: the defaults, chunks = [], start = 0.  starts remembers
\* where in the text each chunk was cut.
chunk_text_enter(text, chunk_size, overlap) ==
    [pc |-> "loop",
     text |-> text,
     chunk_size |-> IF chunk_size.is_none THEN settings_chunk_size ELSE chunk_size.int,
     overlap |-> IF overlap.is_none THEN settings_chunk_overlap ELSE overlap.int,
     start |-> 0,
     chunks |-> <<>>,
     starts |-> <<>>]

\* Variant: the next chunk starts one character after the end of the overlap.
chunk_text_iteration_gapped(c) ==
    IF c.start < Len(c.text)
    THEN LET end == c.start + c.chunk_size
             chunk == Slice(c.text, c.start, end)
             start == end - c.overlap + 1
         IN [c EXCEPT !.chunks = Append(@, chunk),
                      !.starts = Append(@, c.start),
                      !.start = start,
                      !.pc = IF start >= Len(c.text) THEN "done" ELSE "loop"]
    ELSE [c EXCEPT !.pc = "done"]

\* Lines 139-148: the test of the while, one pass through its body with the
\* break, or the return.
chunk_text_iteration(c) ==
    IF c.start < Len(c.text)
    THEN LET end == c.start + c.chunk_size
             chunk == Slice(c.text, c.start, end)
             start == end - c.overlap
         IN [c EXCEPT !.chunks = Append(@, chunk),
                      !.starts = Append(@, c.start),
                      !.start = start,
                      !.pc = IF start >= Len(c.text) THEN "done" ELSE "loop"]
    ELSE [c EXCEPT !.pc = "done"]

(***************************************************************************)
(* PineconeService.  The object's fields, and what the provider does in    *)
(* one call: whether the client constructor, the attachments to the index, *)
(* describe_index_stats and create_index raise, and what query answers.    *)
(***************************************************************************)
top_k == 5

NewPinecone == [pc |-> FALSE, index |-> FALSE, _initialized |-> FALSE]

PreviewLimit == 200
LongText == Repeat("x", PreviewLimit + 1)

Match(id, score, metadata) == [id |-> id, score |-> score, metadata |-> metadata]

\* results.matches, best match first; scores in hundredths.
MatchLists ==
    {<<>>,
     <<Match("doc-1", 90, [text |-> "The Father, the Son and the Holy Spirit.",
                           source |-> "trinity.txt"]),
       Match("doc-2", 80, [text |-> LongText])>>}

\* query(top_k=top_k) answers at most top_k matches.
QueryOutcomes ==
    {[raises |-> FALSE, matches |-> m] : m \in {l \in MatchLists : Len(l) <= top_k}}
    \cup {[raises |-> TRUE, matches |-> <<>>]}

\* What the provider does during one call of the service.  A call the service
\* does not reach is left to succeed: ctor, then attach or else ensure_attach
\* and stats or else create and reattach, then query.
Reached(service, p) ==
    /\ service._initialized => p.ctor /\ p.attach
    /\ (~p.ctor) => p.attach
    /\ p.attach => p.ensure_attach /\ p.stats
    /\ (~p.ensure_attach) => p.stats
    /\ (p.ensure_attach /\ p.stats) => p.create
    /\ (~p.create) => p.reattach
    /\ (~(p.ctor /\ (p.attach \/ (p.ensure_attach /\ p.stats)
                              \/ (p.create /\ p.reattach))))
       => p.query = [raises |-> FALSE, matches |-> <<>>]

\* Whether a call of the provider that the service reaches raises.
ProviderFailed(service, p) ==
    \/ /\ ~service._initialized
       /\ \/ ~p.ctor
          \/ /\ ~p.attach
             /\ ~(p.ensure_attach /\ p.stats)
             /\ ~(p.create /\ p.reattach)
    \/ p.query.raises

Providers(service) ==
    {p \in [ctor : BOOLEAN, attach : BOOLEAN, ensure_attach : BOOLEAN,
            stats : BOOLEAN, create : BOOLEAN, reattach : BOOLEAN,
            query : QueryOutcomes] : Reached(service, p)}

\* _ensure_index_exists: the service afterwards, and whether it raised.
_ensure_index_exists(service, provider) ==
    LET attached == IF provider.ensure_attach
                    THEN [service EXCEPT !.index = TRUE] ELSE service
    IN IF provider.ensure_attach /\ provider.stats
       THEN [service |-> attached, raised |-> FALSE]
       ELSE IF provider.create /\ provider.reattach
            THEN [service |-> [attached EXCEPT !.index = TRUE], raised |-> FALSE]
            ELSE [service |-> attached, raised |-> TRUE]

\* Variant: the flag is set before the connection is attempted.
_initialize_pinecone_flag_first(service, provider) ==
    IF service._initialized
    THEN [service |-> service, raised |-> FALSE, attempted |-> FALSE]
    ELSE LET flagged == [service EXCEPT !._initialized = TRUE]
         IN IF ~provider.ctor
            THEN [service |-> flagged, raised |-> TRUE, attempted |-> TRUE]
            ELSE LET made == [flagged EXCEPT !.pc = TRUE]
                 IN IF provider.attach
                    THEN [service |-> [made EXCEPT !.index = TRUE],
                          raised |-> FALSE, attempted |-> TRUE]
                    ELSE LET ensured == _ensure_index_exists(made, provider)
                         IN [service |-> ensured.service,
                             raised |-> ensured.raised, attempted |-> TRUE]

\* _initialize_pinecone: the service afterwards, whether it raised, and
\* whether it attempted the connection (called Pinecone(), line 16).
_initialize_pinecone(service, provider) ==
    IF service._initialized
    THEN [service |-> service, raised |-> FALSE, attempted |-> FALSE]
    ELSE IF ~provider.ctor
         THEN [service |-> service, raised |-> TRUE, attempted |-> TRUE]
         ELSE LET made == [service EXCEPT !.pc = TRUE]
              IN IF provider.attach
                 THEN [service |-> [made EXCEPT !.index = TRUE,
                                                !._initialized = TRUE],
                       raised |-> FALSE, attempted |-> TRUE]
                 ELSE LET ensured == _ensure_index_exists(made, provider)
                      IN IF ensured.raised
                         THEN [service |-> ensured.service, raised |-> TRUE,
                               attempted |-> TRUE]
                         ELSE [service |-> [ensured.service EXCEPT
                                               !._initialized = TRUE],
                               raised |-> FALSE, attempted |-> TRUE]

Document(match) ==
    [id |-> match.id,
     score |-> match.score,
     text |-> IF "text" \in DOMAIN match.metadata THEN match.metadata.text ELSE "",
     source |-> IF "source" \in DOMAIN match.metadata
                THEN match.metadata.source ELSE "unknown"]

SearchError == Exception("Error searching Pinecone: " \o ProviderError)

\* Variant: a failure is answered with an empty list.
search_similar_swallowing(service, provider) ==
    LET init == _initialize_pinecone(service, provider)
    IN IF init.raised \/ provider.query.raises
       THEN [service |-> init.service, raised |-> FALSE, exc |-> NoException,
             documents |-> <<>>]
       ELSE [service |-> init.service, raised |-> FALSE, exc |-> NoException,
             documents |-> [i \in 1..Len(provider.query.matches) |->
                               Document(provider.query.matches[i])]]

\* search_similar: the service afterwards, and the documents or the exception.
search_similar(service, provider) ==
    LET init == _initialize_pinecone(service, provider)
    IN IF init.raised \/ provider.query.raises
       THEN [service |-> init.service, raised |-> TRUE, exc |-> SearchError,
             documents |-> <<>>]
       ELSE [service |-> init.service, raised |-> FALSE, exc |-> NoException,
             documents |-> [i \in 1..Len(provider.query.matches) |->
                               Document(provider.query.matches[i])]]

UpsertError == Exception("Error upserting documents: " \o ProviderError)

\* upsert_documents: the service afterwards, and True or the exception.
\* upsert_raises is whether index.upsert raises.
upsert_documents(service, provider, upsert_raises) ==
    LET init == _initialize_pinecone(service, provider)
    IN IF init.raised \/ upsert_raises
       THEN [service |-> init.service, raised |-> TRUE, exc |-> UpsertError]
       ELSE [service |-> init.service, raised |-> FALSE, exc |-> NoException]

(***************************************************************************)
(* app/routes/chat.py.                                                     *)
(***************************************************************************)
MAX_MESSAGES_PER_DAY == 25
MAX_MESSAGES_PER_MONTH == 750

DailyDetail == "Daily limit of 25 messages exceeded. Try again tomorrow."
MonthlyDetail == "Monthly limit of 750 messages exceeded. Try again next month."

FallbackContext ==
    "This is a Christian apologetics chatbot. You can ask questions "
    \o "about Christian faith, apologetics, and biblical topics."

\* The requests: the x-forwarded-for header and the peer, each possibly absent.
Request(forwarded, has_client, host) ==
    [x_forwarded_for |-> forwarded, has_client |-> has_client, host |-> host]

Requests ==
    {Request(Str("10.0.0.1, 172.16.0.1"), TRUE, Str("172.16.0.1")),
     Request(None, TRUE, Str("10.0.0.2")),
     Request(None, FALSE, None)}

Questions == {"What is the Trinity?", " Who is Jesus?\n"}

\* _get_user_key: the key, or the exception req.client.host raises.
_get_user_key(req) ==
    IF Truthy(req.x_forwarded_for)
    THEN [raised |-> FALSE, exc |-> NoException,
          key |-> strip(UpToComma(req.x_forwarded_for.str, 1))]
    ELSE IF ~req.has_client
         THEN [raised |-> TRUE,
               exc |-> AttributeError("'NoneType' object has no attribute 'host'"),
               key |-> ""]
         ELSE IF Truthy(req.host)
              THEN [raised |-> FALSE, exc |-> NoException,
                    key |-> strip(UpToComma(req.host.str, 1))]
              ELSE [raised |-> FALSE, exc |-> NoException, key |-> "unknown"]

\* Requests as a client or a proxy may send them: the header absent, blank,
\* or one address, padded or not, followed by nothing, a comma or a second
\* address; the peer unknown to the server, without a host, or with one.
ForwardedHeaders ==
    {None, Str(""), Str(" ")}
    \cup {Str(pad \o entry \o pad \o rest) :
             pad \in {"", " "},
             entry \in {"10.0.0.1", "10.0.0.2", "2001:db8::1"},
             rest \in {"", ",", ", 172.16.0.1"}}

Peers ==
    {[has_client |-> FALSE, host |-> None]}
    \cup {[has_client |-> TRUE, host |-> h] :
             h \in {None, Str(""), Str("10.0.0.2"), Str("172.16.0.1"),
                    Str("::1"), Str("testclient")}}

KeyRequests ==
    {Request(forwarded, peer.has_client, peer.host) :
        forwarded \in ForwardedHeaders, peer \in Peers}

NoIdentity ==
    [pc |-> "none", req |-> Request(None, FALSE, None),
     out |-> [raised |-> FALSE, exc |-> NoException, key |-> ""]]

\* _reset_counters_if_needed, with its two reads of utcnow().
_reset_counters_if_needed(usage, last_day, last_month, now1, now2) ==
    LET now_day == DateOf(now1)
        now_month == YearMonth(now2)
        daily == IF now_day # last_day
                 THEN [k \in DOMAIN usage |-> [usage[k] EXCEPT !.day = 0]]
                 ELSE usage
        monthly == IF now_month # last_month
                   THEN [k \in DOMAIN daily |-> [daily[k] EXCEPT !.month = 0]]
                   ELSE daily
    IN [USAGE |-> monthly, LAST_RESET_DAY |-> now_day, LAST_RESET_MONTH |-> now_month]

\* USAGE.setdefault(user_key, {"day": 0, "month": 0})
setdefault(usage, key) ==
    IF key \in DOMAIN usage THEN usage
    ELSE [k \in DOMAIN usage \cup {key} |->
             IF k = key THEN [day |-> 0, month |-> 0] ELSE usage[k]]

\* The handler's except clause: every exception of the body becomes a 500.
ErrorResponse(exc) ==
    [status_code |-> 500,
     detail |-> "Error processing chat request: " \o exc.str,
     answer |-> None, sources |-> <<>>, question |-> ""]

NoResponse ==
    [status_code |-> 0, detail |-> "", answer |-> None, sources |-> <<>>,
     question |-> ""]

Idle ==
    [pc |-> "idle", user_key |-> "", question |-> "", admitted |-> [day |-> 0, month |-> 0],
     calls |-> <<>>, provider_failed |-> FALSE, search_exc |-> NoException,
     docs |-> <<>>, context |-> "", sources |-> <<>>, exc |-> NoException,
     failed_call |-> "", response |-> NoResponse]

\* Variant: the limits are compared with > where the code has >=.
LimitCheckStrict(counters) ==
    IF counters.day > MAX_MESSAGES_PER_DAY
    THEN HTTPException(429, DailyDetail)
    ELSE IF counters.month > MAX_MESSAGES_PER_MONTH
         THEN HTTPException(429, MonthlyDetail)
         ELSE NoException

\* The limit checks of lines 75-78: the exception they raise, if any.
LimitCheck(counters) ==
    IF counters.day >= MAX_MESSAGES_PER_DAY
    THEN HTTPException(429, DailyDetail)
    ELSE IF counters.month >= MAX_MESSAGES_PER_MONTH
         THEN HTTPException(429, MonthlyDetail)
         ELSE NoException

Failed(request, exc) ==
    [request EXCEPT !.pc = "done", !.exc = exc, !.response = ErrorResponse(exc)]

(***************************************************************************)
(* chat, lines 67-78: the rollover, the user key and the limit checks.     *)
(* The handler is a coroutine on the one event loop of the process, and    *)
(* the three coroutines it awaits call blocking clients without awaiting   *)
(* anything themselves: it runs from line 70 to its return without giving  *)
(* the loop back, so a request starts only when none is being handled.     *)
(***************************************************************************)
MaxInFlight == 1


ChatAdmit(req, question, now1, now2) ==
    LET reset == _reset_counters_if_needed(USAGE, LAST_RESET_DAY, LAST_RESET_MONTH,
                                           now1, now2)
        key == _get_user_key(req)
        usage == IF key.raised THEN reset.USAGE ELSE setdefault(reset.USAGE, key.key)
        started == [Idle EXCEPT !.question = question]
    IN /\ chat.pc \in {"idle", "done"}
       /\ clock' = now2
       /\ USAGE' = usage
       /\ LAST_RESET_DAY' = reset.LAST_RESET_DAY
       /\ LAST_RESET_MONTH' = reset.LAST_RESET_MONTH
       /\ chat' = IF key.raised
                  THEN Failed(started, key.exc)
                  ELSE LET entered == [started EXCEPT !.user_key = key.key,
                                                      !.admitted = usage[key.key]]
                           denied == LimitCheck(usage[key.key])
                       IN IF denied # NoException
                          THEN Failed(entered, denied)
                          ELSE [entered EXCEPT !.pc = "embed"]
       /\ UNCHANGED <<pine, nServed>>

\* Variant: the request is counted as soon as its embedding was made.
ChatEmbedCounting(outcome) ==
    /\ chat.pc = "embed"
    /\ chat' = LET called == [chat EXCEPT !.calls = Append(@, "embed")]
               IN IF outcome.raises
                  THEN Failed([called EXCEPT !.failed_call = "embed"], outcome.exc)
                  ELSE [called EXCEPT !.pc = "search"]
    /\ USAGE' = IF outcome.raises THEN USAGE
                ELSE [USAGE EXCEPT ![chat.user_key] =
                         [day |-> @.day + 1, month |-> @.month + 1]]
    /\ UNCHANGED <<clock, LAST_RESET_DAY, LAST_RESET_MONTH, pine, nServed>>

\* Variant: when the embedding fails the request goes on to the search.
ChatEmbedFallback(outcome) ==
    /\ chat.pc = "embed"
    /\ chat' = LET called == [chat EXCEPT !.calls = Append(@, "embed")]
               IN IF outcome.raises
                  THEN [called EXCEPT !.pc = "search", !.failed_call = "embed"]
                  ELSE [called EXCEPT !.pc = "search"]
    /\ UNCHANGED <<clock, USAGE, LAST_RESET_DAY, LAST_RESET_MONTH, pine, nServed>>

(***************************************************************************)
(* chat, line 81: await openai_service.get_embeddings([request.question]). *)
(* failed_call remembers which of the two OpenAI calls raised, if one did. *)
(***************************************************************************)
ChatEmbed(outcome) ==
    /\ chat.pc = "embed"
    /\ chat' = LET called == [chat EXCEPT !.calls = Append(@, "embed")]
               IN IF outcome.raises
                  THEN Failed([called EXCEPT !.failed_call = "embed"], outcome.exc)
                  ELSE [called EXCEPT !.pc = "search"]
    /\ UNCHANGED <<clock, USAGE, LAST_RESET_DAY, LAST_RESET_MONTH, pine, nServed>>

\* Variant: a text of exactly the limit gets the ellipsis too.
SourceEntryAtLimit(doc) ==
    [text |-> IF Len(doc.text) >= PreviewLimit
              THEN SubSeq(doc.text, 1, PreviewLimit) \o "..."
              ELSE doc.text,
     source |-> doc.source,
     score |-> doc.score]

\* Lines 94-100: one entry of sources.
SourceEntry(doc) ==
    [text |-> IF Len(doc.text) > PreviewLimit
              THEN SubSeq(doc.text, 1, PreviewLimit) \o "..."
              ELSE doc.text,
     source |-> doc.source,
     score |-> doc.score]

\* "\n\n".join(parts)
RECURSIVE JoinTexts(_, _)
JoinTexts(docs, n) ==
    IF n = 0 THEN ""
    ELSE IF n = 1 THEN docs[1].text
         ELSE JoinTexts(docs, n - 1) \o "\n\n" \o docs[n].text

\* Variant: the search is awaited outside any try, so its exception ends the
\* request.
ChatSearchUnguarded(provider) ==
    LET found == search_similar(pine, provider)
    IN /\ chat.pc = "search"
       /\ pine' = found.service
       /\ chat' = IF found.raised
                  THEN Failed([chat EXCEPT !.calls = Append(@, "search"),
                                           !.provider_failed = TRUE,
                                           !.search_exc = found.exc], found.exc)
                  ELSE [chat EXCEPT
                          !.pc = "generate",
                          !.calls = Append(@, "search"),
                          !.docs = found.documents,
                          !.context = IF found.documents # <<>>
                                      THEN JoinTexts(found.documents,
                                                     Len(found.documents))
                                      ELSE FallbackContext,
                          !.sources = [i \in 1..Len(found.documents) |->
                                          SourceEntry(found.documents[i])]]
       /\ UNCHANGED <<clock, USAGE, LAST_RESET_DAY, LAST_RESET_MONTH, nServed>>

\* Variant: each entry is put at the front of sources (insert(0, ...)).
ChatSearchPrepending(provider) ==
    LET found == search_similar(pine, provider)
        relevant_docs == IF found.raised THEN <<>> ELSE found.documents
    IN /\ chat.pc = "search"
       /\ pine' = found.service
       /\ chat' = [chat EXCEPT
                     !.pc = "generate",
                     !.calls = Append(@, "search"),
                     !.provider_failed = ProviderFailed(pine, provider),
                     !.search_exc = found.exc,
                     !.docs = relevant_docs,
                     !.context = IF relevant_docs # <<>>
                                 THEN JoinTexts(relevant_docs, Len(relevant_docs))
                                 ELSE FallbackContext,
                     !.sources = [i \in 1..Len(relevant_docs) |->
                                     SourceEntry(relevant_docs[Len(relevant_docs) + 1 - i])]]
       /\ UNCHANGED <<clock, USAGE, LAST_RESET_DAY, LAST_RESET_MONTH, nServed>>

(***************************************************************************)
(* chat, lines 83-106: the search, tolerated when it raises, then the      *)
(* context and the sources.                                                *)
(***************************************************************************)
ChatSearch(provider) ==
    LET found == search_similar(pine, provider)
        relevant_docs == IF found.raised THEN <<>> ELSE found.documents
    IN /\ chat.pc = "search"
       /\ pine' = found.service
       /\ chat' = [chat EXCEPT
                     !.pc = "generate",
                     !.calls = Append(@, "search"),
                     !.provider_failed = ProviderFailed(pine, provider),
                     !.search_exc = found.exc,
                     !.docs = relevant_docs,
                     !.context = IF relevant_docs # <<>>
                                 THEN JoinTexts(relevant_docs, Len(relevant_docs))
                                 ELSE FallbackContext,
                     !.sources = [i \in 1..Len(relevant_docs) |->
                                     SourceEntry(relevant_docs[i])]]
       /\ UNCHANGED <<clock, USAGE, LAST_RESET_DAY, LAST_RESET_MONTH, nServed>>

\* usage["day"] += 1; usage["month"] += 1
Counted(usage, key) ==
    [usage EXCEPT ![key] = [day |-> @.day + 1, month |-> @.month + 1]]

\* Variant: the counters are incremented before the completion is awaited.
ChatGenerateCountingFirst(outcome) ==
    LET called == [chat EXCEPT !.calls = <<"embed", "search", "increment", "generate">>]
    IN /\ chat.pc = "generate"
       /\ USAGE' = Counted(USAGE, chat.user_key)
       /\ nServed' = nServed + 1
       /\ chat' = IF outcome.raises
                  THEN Failed([called EXCEPT !.failed_call = "generate"], outcome.exc)
                  ELSE IF outcome.answer.is_none
                       THEN Failed(called,
                                   ValidationError("1 validation error for ChatResponse"))
                       ELSE [called EXCEPT
                                !.pc = "done",
                                !.response = [status_code |-> 200,
                                              detail |-> "",
                                              answer |-> outcome.answer,
                                              sources |-> chat.sources,
                                              question |-> chat.question]]
       /\ UNCHANGED <<clock, LAST_RESET_DAY, LAST_RESET_MONTH, pine>>

\* Variant: when the completion raises, the request starts over at the
\* embedding instead of ending.
ChatGenerateRetrying(outcome) ==
    LET called == [chat EXCEPT !.calls = Append(@, "generate")]
        counted == [called EXCEPT !.calls = Append(@, "increment")]
    IN /\ chat.pc = "generate"
       /\ IF outcome.raises
          THEN /\ chat' = [chat EXCEPT !.pc = "embed", !.calls = <<>>,
                                       !.provider_failed = FALSE,
                                       !.search_exc = NoException,
                                       !.docs = <<>>, !.context = "",
                                       !.sources = <<>>]
               /\ UNCHANGED <<USAGE, nServed>>
          ELSE /\ USAGE' = Counted(USAGE, chat.user_key)
               /\ nServed' = nServed + 1
               /\ chat' = IF outcome.answer.is_none
                          THEN Failed(counted,
                                      ValidationError("1 validation error for ChatResponse"))
                          ELSE [counted EXCEPT
                                   !.pc = "done",
                                   !.response = [status_code |-> 200,
                                                 detail |-> "",
                                                 answer |-> outcome.answer,
                                                 sources |-> chat.sources,
                                                 question |-> chat.question]]
       /\ UNCHANGED <<clock, LAST_RESET_DAY, LAST_RESET_MONTH, pine>>

(***************************************************************************)
(* chat, lines 115-121: the completion, the counters, the response.        *)
(* ChatResponse(answer=None) does not validate, after the counters moved.  *)
(***************************************************************************)
ChatGenerate(outcome) ==
    LET called == [chat EXCEPT !.calls = Append(@, "generate")]
        counted == [called EXCEPT !.calls = Append(@, "increment")]
    IN /\ chat.pc = "generate"
       /\ IF outcome.raises
          THEN /\ chat' = Failed([called EXCEPT !.failed_call = "generate"],
                                  outcome.exc)
               /\ UNCHANGED <<USAGE, nServed>>
          ELSE /\ USAGE' = Counted(USAGE, chat.user_key)
               /\ nServed' = nServed + 1
               /\ chat' = IF outcome.answer.is_none
                          THEN Failed(counted,
                                      ValidationError("1 validation error for ChatResponse"))
                          ELSE [counted EXCEPT
                                   !.pc = "done",
                                   !.response = [status_code |-> 200,
                                                 detail |-> "",
                                                 answer |-> outcome.answer,
                                                 sources |-> chat.sources,
                                                 question |-> chat.question]]
       /\ UNCHANGED <<clock, LAST_RESET_DAY, LAST_RESET_MONTH, pine>>

(***************************************************************************)
(* get_usage (GET /usage): only its rollover changes the counters.  The    *)
(* locals of the /chat request answered before it are gone.                *)
(***************************************************************************)
GetUsage(now1, now2) ==
    LET reset == _reset_counters_if_needed(USAGE, LAST_RESET_DAY, LAST_RESET_MONTH,
                                           now1, now2)
    IN /\ chat.pc \in {"idle", "done"}
       /\ clock' = now2
       /\ USAGE' = reset.USAGE
       /\ LAST_RESET_DAY' = reset.LAST_RESET_DAY
       /\ LAST_RESET_MONTH' = reset.LAST_RESET_MONTH
       /\ chat' = Idle
       /\ UNCHANGED <<pine, nServed>>

(***************************************************************************)
(* Database sessions.  get_db gives every caller a Session of its own; a   *)
(* ledger call on it runs its SELECT (line 18), its INSERT (lines 27-28)   *)
(* and the UPDATE of its commit as separate statements on the one table,   *)
(* and the statements of another session may run between them.  The        *)
(* object a session loaded keeps the values it was loaded with.            *)
(***************************************************************************)
MaxSessions == 2

Sessions == 1..MaxSessions

LedgerOps == {"check", "increment", "stats"}

NoRow == UserUsage("", 0, 0, 0)

NoSession ==
    [pc |-> "idle", op |-> "none", user_identifier |-> "", row |-> 0,
     loaded |-> NoRow, obj |-> NoRow, ret |-> <<>>]

\* The UPDATE a commit flushes for an object: the columns whose value differs
\* from the one loaded are set to the object's value, the others are left.
Flush(stored, loaded, obj) ==
    [stored EXCEPT
        !.daily_message_count =
            IF obj.daily_message_count # loaded.daily_message_count
            THEN obj.daily_message_count ELSE @,
        !.monthly_message_count =
            IF obj.monthly_message_count # loaded.monthly_message_count
            THEN obj.monthly_message_count ELSE @,
        !.last_reset_date =
            IF obj.last_reset_date # loaded.last_reset_date
            THEN obj.last_reset_date ELSE @]

\* A call starts on session s: line 18, the query for the caller's record.
SessionQuery(s, op, user_identifier) ==
    LET i == FirstRow(table, _get_user_hash(user_identifier))
        found == IF i = 0 THEN NoRow ELSE table[i]
    IN /\ sessions[s].pc \in {"idle", "returned"}
       /\ op = "increment" => nIncr < MaxIncr
       /\ sessions' = [sessions EXCEPT ![s] =
                          [pc |-> IF i = 0 THEN "missing" ELSE "loaded",
                           op |-> op, user_identifier |-> user_identifier,
                           row |-> i, loaded |-> found, obj |-> found,
                           ret |-> <<>>]]
       /\ nIncr' = IF op = "increment" THEN nIncr + 1 ELSE nIncr
       /\ UNCHANGED <<table, incToday>>

\* Lines 20-29: the query found no record; one is added, committed and read
\* back.
SessionCreate(s) ==
    LET new == UserUsage(_get_user_hash(sessions[s].user_identifier), 0, 0, clock)
    IN /\ sessions[s].pc = "missing"
       /\ table' = Append(table, new)
       /\ sessions' = [sessions EXCEPT ![s] =
                          [@ EXCEPT !.pc = "loaded", !.row = Len(table) + 1,
                                    !.loaded = new, !.obj = new]]
       /\ UNCHANGED <<incToday, nIncr>>

\* The rest of the call on the loaded object: the two resets, then for
\* check_rate_limit lines 68-99, for increment_usage lines 111-114, for
\* get_usage_stats lines 125-132.
SessionFinish(s, now1, now2) ==
    LET call == sessions[s]
        user_id == _get_user_hash(call.user_identifier)
        daily == _reset_daily_count_if_needed(call.obj, now1)
        monthly == _reset_monthly_count_if_needed(daily.usage, now2)
        bumped == [monthly.usage EXCEPT !.daily_message_count = @ + 1,
                                        !.monthly_message_count = @ + 1]
        u == monthly.usage
    IN /\ call.pc = "loaded"
       /\ CASE call.op = "check" ->
                LET committed == IF daily.reset \/ monthly.reset
                                 THEN [table EXCEPT ![call.row] =
                                          Flush(@, call.loaded, monthly.usage)]
                                 ELSE table
                    refreshed == IF daily.reset \/ monthly.reset
                                 THEN committed[call.row] ELSE monthly.usage
                IN /\ table' = committed
                   /\ sessions' = [sessions EXCEPT ![s] =
                                      [@ EXCEPT !.pc = "returned", !.obj = refreshed,
                                                !.ret = Decision(refreshed)]]
                   /\ UNCHANGED incToday
            [] call.op = "increment" ->
                /\ table' = [table EXCEPT ![call.row] =
                                Flush(@, call.loaded, bumped)]
                /\ sessions' = [sessions EXCEPT ![s] =
                                   [@ EXCEPT !.pc = "returned", !.obj = bumped]]
                /\ incToday' = [incToday EXCEPT ![user_id] = @ + 1]
            [] OTHER ->
                /\ sessions' = [sessions EXCEPT ![s] =
                      [@ EXCEPT
                          !.pc = "returned", !.obj = u,
                          !.ret = <<[daily_used |-> u.daily_message_count,
                                     daily_remaining |->
                                         Max(0, daily_limit - u.daily_message_count),
                                     daily_limit |-> daily_limit,
                                     monthly_used |-> u.monthly_message_count,
                                     monthly_remaining |->
                                         Max(0, monthly_limit - u.monthly_message_count),
                                     monthly_limit |-> monthly_limit]>>]]
                /\ UNCHANGED <<table, incToday>>
       /\ UNCHANGED nIncr

\* The values of preview and store before any call.
NoPreview ==
    [pc |-> "none",
     doc |-> [id |-> "", score |-> 0, text |-> "", source |-> ""],
     entry |-> [text |-> "", source |-> "", score |-> 0]]

NoStore ==
    [op |-> "none", calls |-> 0, attempted |-> FALSE, init_raised |-> FALSE,
     raised |-> FALSE, failures |-> 0, succeeded_before |-> 0, succeeded |-> 0]

\* The module as imported today, the service objects as constructed.
ChatImported ==
    /\ USAGE = <<>>
    /\ LAST_RESET_DAY = DateOf(StartDay)
    /\ LAST_RESET_MONTH = YearMonth(StartDay)
    /\ chat = Idle
    /\ pine = NewPinecone
    /\ nServed = 0
    /\ completion = NoCompletion
    /\ identity = NoIdentity
    /\ sessions = [s \in Sessions |-> NoSession]
    /\ preview = NoPreview
    /\ store = NoStore
    /\ chunker = NoChunker

(***************************************************************************)
(* Midnight (UTC) passes.                                                  *)
(***************************************************************************)
Tick ==
    /\ clock < MaxDay
    /\ clock' = clock + 1
    /\ incToday' = ZeroCounts
    /\ UNCHANGED <<table, lastCall, nIncr, chatVars, composeVars, unitVars>>

(***************************************************************************)
(* The ledger over several days.  The table is durable, so a run starts    *)
(* from what earlier runs committed: no row, or one row last reset the day *)
(* before, with its counters at or next to the limits.                     *)
(***************************************************************************)
SeedCounts ==
    {<<daily_limit, monthly_limit - 1>>,
     <<daily_limit, monthly_limit>>,
     <<daily_limit - 1, monthly_limit>>}

SeedRows(user_id) ==
    {<<>>} \cup {<<UserUsage(user_id, c[1], c[2], StartDay - 1)>> : c \in SeedCounts}

SeedTables ==
    UNION {SeedRows(user_id) : user_id \in UserIds}

Init ==
    /\ clock = StartDay
    /\ table \in SeedTables
    /\ lastCall = NoCall
    /\ incToday = ZeroCounts
    /\ nIncr = 0
    /\ ChatImported

\* The two later reads of utcnow() in one call: each may fall after a midnight.
ClockReads ==
    {r \in Days \X Days : /\ r[1] \in {clock, clock + 1}
                          /\ r[2] \in {r[1], r[1] + 1}
                          /\ r[2] <= clock + 1}

Check ==
    /\ \E i \in Identifiers, r \in ClockReads : check_rate_limit(i, r[1], r[2])
    /\ UNCHANGED <<chatVars, composeVars, unitVars>>

Increment ==
    /\ nIncr < MaxIncr
    /\ \E i \in Identifiers, r \in ClockReads : increment_usage(i, r[1], r[2])
    /\ UNCHANGED <<chatVars, composeVars, unitVars>>

Stats ==
    /\ \E i \in Identifiers, r \in ClockReads : get_usage_stats(i, r[1], r[2])
    /\ UNCHANGED <<chatVars, composeVars, unitVars>>

Next == Check \/ Increment \/ Stats \/ Tick

Spec == Init /\ [][Next]_vars

(***************************************************************************)
(* The ledger within one UTC day, from an empty table.                     *)
(***************************************************************************)
InitDay ==
    /\ clock = StartDay
    /\ table = <<>>
    /\ lastCall = NoCall
    /\ incToday = ZeroCounts
    /\ nIncr = 0
    /\ ChatImported

CheckDay ==
    /\ \E i \in Identifiers : check_rate_limit(i, clock, clock)
    /\ UNCHANGED <<chatVars, composeVars, unitVars>>

IncrementDay ==
    /\ \E i \in Identifiers :
          /\ incToday[_get_user_hash(i)] < daily_limit + MaxOver
          /\ increment_usage(i, clock, clock)
    /\ UNCHANGED <<chatVars, composeVars, unitVars>>

NextDay == CheckDay \/ IncrementDay

SpecDay == InitDay /\ [][NextDay]_vars

(***************************************************************************)
(* The ledger at the admission gate.  A run starts from one committed row  *)
(* of the first caller, last reset yesterday or today, with its counters   *)
(* at, next to or far from the limits: increment_usage does not look at    *)
(* the limits, so a counter may stand above its limit.                     *)
(***************************************************************************)
GateCounts ==
    ({0, daily_limit - 1, daily_limit, daily_limit + 1}
        \X {monthly_limit - 1, monthly_limit, monthly_limit + 1})
    \cup {<<0, 0>>, <<daily_limit, daily_limit>>}

GateTables ==
    {<<>>} \cup {<<UserUsage(_get_user_hash("10.0.0.1"), c[1], c[2], d)>> :
                    c \in GateCounts, d \in {StartDay - 1, StartDay}}

InitGate ==
    /\ clock = StartDay
    /\ table \in GateTables
    /\ lastCall = NoCall
    /\ incToday = ZeroCounts
    /\ nIncr = 0
    /\ ChatImported

NextGate == Check \/ Increment \/ Tick

SpecGate == InitGate /\ [][NextGate]_vars

(***************************************************************************)
(* The ledger's two queries, check_rate_limit and get_usage_stats, over    *)
(* the records of the admission gate and several days.                     *)
(***************************************************************************)
InitStatus ==
    /\ clock = StartDay
    /\ table \in GateTables
    /\ lastCall = NoCall
    /\ incToday = ZeroCounts
    /\ nIncr = 0
    /\ ChatImported

NextStatus == Check \/ Stats \/ Tick

SpecStatus == InitStatus /\ [][NextStatus]_vars

(***************************************************************************)
(* The /chat pipeline.  The counters live as long as the process, so a run *)
(* starts from the module as imported, or from what one caller's earlier   *)
(* requests of this month left: counters next to the limits, as far as the *)
(* days of the month so far allow.                                         *)
(***************************************************************************)
SeedCounters ==
    {c \in {[day |-> MAX_MESSAGES_PER_DAY - 1, month |-> MAX_MESSAGES_PER_MONTH - 1]} :
        c.month - c.day <= MAX_MESSAGES_PER_DAY * (StartDay % DaysPerMonth)}

SeedUsages ==
    {<<>>} \cup {[k \in {"10.0.0.1"} |-> c] : c \in SeedCounters}

InitChat ==
    /\ clock = StartDay
    /\ table = <<>>
    /\ lastCall = NoCall
    /\ incToday = ZeroCounts
    /\ nIncr = 0
    /\ USAGE \in SeedUsages
    /\ LAST_RESET_DAY = DateOf(StartDay)
    /\ LAST_RESET_MONTH = YearMonth(StartDay)
    /\ chat = Idle
    /\ pine = NewPinecone
    /\ nServed = 0
    /\ completion = NoCompletion
    /\ identity = NoIdentity
    /\ sessions = [s \in Sessions |-> NoSession]
    /\ preview = NoPreview
    /\ store = NoStore
    /\ chunker = NoChunker

Admit ==
    /\ nServed < MaxServed
    /\ \E req \in Requests, question \in Questions, r \in ClockReads :
          ChatAdmit(req, question, r[1], r[2])
    /\ UNCHANGED <<ledgerVars, composeVars, unitVars>>

Embed ==
    /\ \E outcome \in EmbedOutcomes : ChatEmbed(outcome)
    /\ UNCHANGED <<ledgerVars, composeVars, unitVars>>

Search ==
    /\ \E provider \in Providers(pine) : ChatSearch(provider)
    /\ UNCHANGED <<ledgerVars, composeVars, unitVars>>

Generate ==
    /\ \E outcome \in ChatOutcomes : ChatGenerate(outcome)
    /\ UNCHANGED <<ledgerVars, composeVars, unitVars>>

Usage ==
    /\ \E r \in ClockReads : GetUsage(r[1], r[2])
    /\ UNCHANGED <<ledgerVars, composeVars, unitVars>>

NextChat == Admit \/ Embed \/ Search \/ Generate \/ Usage \/ Tick

SpecChat == InitChat /\ [][NextChat]_vars

(***************************************************************************)
(* The /chat pipeline when every remote call comes back.  Each of the      *)
(* three awaited calls ends by returning or raising (the OpenAI clients    *)
(* are built with timeout=30.0 and timeout=60.0 and max_retries=2), so a   *)
(* request waiting at one of them moves on.  Nothing obliges a request to  *)
(* arrive; midnight passes between the clock reads of a request.           *)
(***************************************************************************)
NextRequest == Admit \/ Embed \/ Search \/ Generate

SpecChatFair ==
    /\ InitChat
    /\ [][NextRequest]_vars
    /\ WF_vars(Embed)
    /\ WF_vars(Search)
    /\ WF_vars(Generate)

(***************************************************************************)
(* get_chat_completion on its own, over the generated texts.               *)
(***************************************************************************)
InitCompose ==
    /\ clock = StartDay
    /\ table = <<>>
    /\ lastCall = NoCall
    /\ incToday = ZeroCounts
    /\ nIncr = 0
    /\ ChatImported

Complete ==
    /\ \E configured \in MaxTokenSettings, content \in GeneratedContents,
          raises \in BOOLEAN :
          completion' = get_chat_completion(configured, content, raises)
    /\ UNCHANGED <<clock, ledgerVars, chatVars, identity, unitVars>>

NextCompose == Complete

SpecCompose == InitCompose /\ [][NextCompose]_vars

(***************************************************************************)
(* _get_user_key on its own, over the requests.                            *)
(***************************************************************************)
InitKey ==
    /\ clock = StartDay
    /\ table = <<>>
    /\ lastCall = NoCall
    /\ incToday = ZeroCounts
    /\ nIncr = 0
    /\ ChatImported

Resolve ==
    /\ \E req \in KeyRequests :
          identity' = [pc |-> "called", req |-> req, out |-> _get_user_key(req)]
    /\ UNCHANGED <<clock, ledgerVars, chatVars, completion, unitVars>>

NextKey == Resolve

SpecKey == InitKey /\ [][NextKey]_vars

(***************************************************************************)
(* The source entry of one retrieved document, over documents with texts   *)
(* of up to PreviewLimit + MaxPreviewExtra characters: n characters, "a"   *)
(* up to the limit and "b" beyond it.                                      *)
(***************************************************************************)
MaxPreviewExtra == 30

PreviewText(n) ==
    IF n <= PreviewLimit THEN Repeat("a", n)
    ELSE Repeat("a", PreviewLimit) \o Repeat("b", n - PreviewLimit)

PreviewLengths ==
    {0, 1} \cup ((PreviewLimit - MaxPreviewExtra)..(PreviewLimit + MaxPreviewExtra))

PreviewDocs ==
    {Document(Match("doc-1", score, IF source = "" THEN [text |-> PreviewText(n)]
                                    ELSE [text |-> PreviewText(n),
                                          source |-> source])) :
        n \in PreviewLengths, score \in {80, 90}, source \in {"", "trinity.txt"}}

InitPreview ==
    /\ clock = StartDay
    /\ table = <<>>
    /\ lastCall = NoCall
    /\ incToday = ZeroCounts
    /\ nIncr = 0
    /\ ChatImported

Preview ==
    /\ \E doc \in PreviewDocs :
          preview' = [pc |-> "built", doc |-> doc, entry |-> SourceEntry(doc)]
    /\ UNCHANGED <<clock, ledgerVars, chatVars, composeVars, sessions, store, chunker>>

NextPreview == Preview

SpecPreview == InitPreview /\ [][NextPreview]_vars

(***************************************************************************)
(* One PineconeService instance under a sequence of search_similar and     *)
(* upsert_documents calls.  store counts the calls, the initializations    *)
(* that raised and those that succeeded, and remembers of the last call    *)
(* whether it attempted the connection and what came of it.                *)
(***************************************************************************)
MaxStoreCalls == 6

InitStore ==
    /\ clock = StartDay
    /\ table = <<>>
    /\ lastCall = NoCall
    /\ incToday = ZeroCounts
    /\ nIncr = 0
    /\ ChatImported

\* What store remembers after a call that ran the initialization init and
\* ended as out.
StoreAfter(op, init, out) ==
    [op |-> op,
     calls |-> store.calls + 1,
     attempted |-> init.attempted,
     init_raised |-> init.raised,
     raised |-> out.raised,
     failures |-> store.failures + (IF init.raised THEN 1 ELSE 0),
     succeeded_before |-> store.succeeded,
     succeeded |-> store.succeeded
                   + (IF init.attempted /\ ~init.raised THEN 1 ELSE 0)]

StoreSearch ==
    /\ store.calls < MaxStoreCalls
    /\ \E provider \in Providers(pine) :
          /\ pine' = search_similar(pine, provider).service
          /\ store' = StoreAfter("search", _initialize_pinecone(pine, provider),
                                 search_similar(pine, provider))
    /\ UNCHANGED <<clock, ledgerVars, USAGE, LAST_RESET_DAY, LAST_RESET_MONTH,
                   chat, nServed, composeVars, sessions, preview, chunker>>

StoreUpsert ==
    /\ store.calls < MaxStoreCalls
    /\ \E provider \in Providers(pine), upsert_raises \in BOOLEAN :
          /\ provider.query = [raises |-> FALSE, matches |-> <<>>]
          /\ pine' = upsert_documents(pine, provider, upsert_raises).service
          /\ store' = StoreAfter("upsert", _initialize_pinecone(pine, provider),
                                 upsert_documents(pine, provider, upsert_raises))
    /\ UNCHANGED <<clock, ledgerVars, USAGE, LAST_RESET_DAY, LAST_RESET_MONTH,
                   chat, nServed, composeVars, sessions, preview, chunker>>

NextStore == StoreSearch \/ StoreUpsert

SpecStore == InitStore /\ [][NextStore]_vars

(***************************************************************************)
(* chunk_text on its own: texts of up to MaxTextLen characters, chunk      *)
(* sizes from 0 and overlaps up to one more than the chunk size, or the    *)
(* defaults of the settings.  A call whose loop does not end is followed   *)
(* for MaxChunks passes.                                                   *)
(***************************************************************************)
MaxTextLen == 5
MaxChunkSize == 3
MaxChunks == MaxTextLen + 2

Alphabet == "abcdefghijklmnopqrstuvwxyz"

ChunkTexts == {SubSeq(Alphabet, 1, n) : n \in 0..MaxTextLen}

ChunkSizes == {NoInt} \cup {Int_(n) : n \in 0..MaxChunkSize}

Overlaps == {NoInt} \cup {Int_(n) : n \in 0..(MaxChunkSize + 1)}

InitChunk ==
    /\ clock = StartDay
    /\ table = <<>>
    /\ lastCall = NoCall
    /\ incToday = ZeroCounts
    /\ nIncr = 0
    /\ ChatImported

ChunkEnter ==
    /\ chunker.pc \in {"idle", "done"}
    /\ \E text \in ChunkTexts, chunk_size \in ChunkSizes, overlap \in Overlaps :
          /\ (~overlap.is_none /\ ~chunk_size.is_none)
                => overlap.int <= chunk_size.int + 1
          /\ chunker' = chunk_text_enter(text, chunk_size, overlap)
    /\ UNCHANGED <<clock, ledgerVars, chatVars, composeVars, sessions, preview, store>>

ChunkLoop ==
    /\ chunker.pc = "loop"
    /\ Len(chunker.chunks) < MaxChunks
    /\ chunker' = chunk_text_iteration(chunker)
    /\ UNCHANGED <<clock, ledgerVars, chatVars, composeVars, sessions, preview, store>>

NextChunk == ChunkEnter \/ ChunkLoop

\* The loop is running code: it takes its next pass.
SpecChunk == InitChunk /\ [][NextChunk]_vars /\ WF_vars(ChunkLoop)

(***************************************************************************)
(* The ledger called from several sessions within one UTC day.  The table  *)
(* starts empty, or with the record of the first caller as yesterday left  *)
(* it.                                                                     *)
(***************************************************************************)
SessionTables ==
    {<<>>,
     <<UserUsage(_get_user_hash("10.0.0.1"), daily_limit - 1, daily_limit - 1,
                 StartDay - 1)>>}

InitSessions ==
    /\ clock = StartDay
    /\ table \in SessionTables
    /\ lastCall = NoCall
    /\ incToday = ZeroCounts
    /\ nIncr = 0
    /\ ChatImported

Query ==
    /\ \E s \in Sessions, op \in LedgerOps, i \in Identifiers : SessionQuery(s, op, i)
    /\ UNCHANGED <<clock, lastCall, chatVars, composeVars, preview, store, chunker>>

Create ==
    /\ \E s \in Sessions : SessionCreate(s)
    /\ UNCHANGED <<clock, lastCall, chatVars, composeVars, preview, store, chunker>>

Finish ==
    /\ \E s \in Sessions : SessionFinish(s, clock, clock)
    /\ UNCHANGED <<clock, lastCall, chatVars, composeVars, preview, store, chunker>>

NextSessions == Query \/ Create \/ Finish

SpecSessions == InitSessions /\ [][NextSessions]_vars

(***************************************************************************)
(* Properties of the ledger.                                               *)
(***************************************************************************)
\* The committed record of the caller of the last ledger call.
Stored == table[FirstRow(table, _get_user_hash(lastCall.user_identifier))]

\* The last call read the clock at now1 and at now2 within one month, that of
\* the record it loaded.
InRecordMonth ==
    /\ YearMonth(lastCall.before.last_reset_date) = YearMonth(lastCall.now1)
    /\ YearMonth(lastCall.now1) = YearMonth(lastCall.now2)

\* C1: a check_rate_limit on a record whose last_reset_date lies in an earlier
\* month than the current time and whose monthly_message_count is
\* monthly_limit leaves the stored monthly_message_count at 0 and returns
\* allowed = TRUE.
C1_MonthRollover ==
    (/\ lastCall.op = "check"
     /\ YearMonth(lastCall.before.last_reset_date) < YearMonth(lastCall.now1)
     /\ lastCall.before.monthly_message_count = monthly_limit)
    => (/\ Stored.monthly_message_count = 0
        /\ lastCall.ret[3].monthly_used = 0
        /\ lastCall.ret[1] = TRUE)

\* C2: a check_rate_limit on a record last reset on the previous day of the
\* current month, with daily_message_count = daily_limit and
\* monthly_message_count below monthly_limit, stores daily_message_count = 0,
\* returns allowed = TRUE and leaves monthly_message_count as it was.
C2_Case ==
    /\ lastCall.op = "check"
    /\ DateOf(lastCall.before.last_reset_date) = DateOf(lastCall.now1) - 1
    /\ InRecordMonth
    /\ lastCall.before.daily_message_count = daily_limit
    /\ lastCall.before.monthly_message_count < monthly_limit

C2_DayRollover ==
    C2_Case
    => (/\ Stored.daily_message_count = 0
        /\ lastCall.ret[3].daily_used = 0
        /\ lastCall.ret[1] = TRUE
        /\ Stored.monthly_message_count = lastCall.before.monthly_message_count
        /\ lastCall.ret[3].monthly_used = lastCall.before.monthly_message_count)

C2_Witness ==
    /\ C2_Case
    /\ Stored.daily_message_count = 0
    /\ lastCall.ret[1] = TRUE
    /\ Stored.monthly_message_count = monthly_limit - 1

\* C3: within one UTC day, on records created that day, a check_rate_limit
\* after N increment_usage calls of its user reports daily_used = N for every
\* N <= daily_limit, and once daily_limit increments were made it returns
\* allowed = FALSE with the daily-limit message.
C3_DailyCount ==
    lastCall.op = "check"
    => LET n == incToday[_get_user_hash(lastCall.user_identifier)]
       IN /\ n <= daily_limit => lastCall.ret[3].daily_used = n
          /\ n < daily_limit => lastCall.ret[1] = TRUE
          /\ n >= daily_limit =>
                /\ lastCall.ret[1] = FALSE
                /\ lastCall.ret[2] = DailyMessage

C3_Witness ==
    /\ lastCall.op = "check"
    /\ incToday[_get_user_hash(lastCall.user_identifier)] = daily_limit
    /\ lastCall.ret[3].daily_used = daily_limit
    /\ lastCall.ret[1] = FALSE
    /\ lastCall.ret[2] = DailyMessage

\* C8: the daily_used a check_rate_limit reports equals the number of
\* increment_usage calls made for its user during the current UTC day, and an
\* increment_usage that is the first operation of a new day stores
\* daily_message_count = 1.
C8_DailyConsistent ==
    /\ (lastCall.op = "check" /\ lastCall.now1 = clock)
       => lastCall.ret[3].daily_used =
              incToday[_get_user_hash(lastCall.user_identifier)]
    /\ (/\ lastCall.op = "increment"
        /\ DateOf(lastCall.before.last_reset_date) < DateOf(lastCall.now1))
       => Stored.daily_message_count = 1

C8_Witness ==
    /\ lastCall.op = "check"
    /\ lastCall.now1 = clock
    /\ clock > StartDay
    /\ lastCall.created = FALSE
    /\ lastCall.before.daily_message_count = 1
    /\ incToday[_get_user_hash(lastCall.user_identifier)] = 1
    /\ lastCall.ret[3].daily_used = 1
    /\ lastCall.ret[3].monthly_used > 1

\* C9: an increment_usage on a record whose last_reset_date lies in an earlier
\* month than the current time stores monthly_message_count = 1.
C9_MonthlyAfterRollover ==
    (/\ lastCall.op = "increment"
     /\ YearMonth(lastCall.before.last_reset_date) < YearMonth(lastCall.now1))
    => Stored.monthly_message_count = 1

\* C10: a check_rate_limit for a user id that has no record creates the
\* record, the only one of that user id, and returns allowed = TRUE with
\* daily_used = 0 and monthly_used = 0.
C10_FirstCheck ==
    (lastCall.op = "check" /\ lastCall.created)
    => (/\ Cardinality({i \in 1..Len(table) :
               table[i].user_id = _get_user_hash(lastCall.user_identifier)}) = 1
        /\ lastCall.ret[1] = TRUE
        /\ lastCall.ret[3].daily_used = 0
        /\ lastCall.ret[3].monthly_used = 0
        /\ Stored.daily_message_count = 0
        /\ Stored.monthly_message_count = 0)

C10_Witness ==
    /\ lastCall.op = "check"
    /\ lastCall.created
    /\ Len(table) = 2
    /\ lastCall.ret[1] = TRUE
    /\ lastCall.ret[3].daily_used = 0
    /\ lastCall.ret[3].monthly_used = 0

\* C31: in every committed state of the table, under any sequence of
\* check_rate_limit, increment_usage and get_usage_stats calls and midnights,
\* every record has 0 <= daily_message_count <= monthly_message_count.
C31_CounterOrdering ==
    \A i \in 1..Len(table) :
        /\ 0 <= table[i].daily_message_count
        /\ table[i].daily_message_count <= table[i].monthly_message_count

\* C11: a check_rate_limit that directly follows a check_rate_limit of the
\* same caller, with every clock read of the two calls on one day, returns the
\* same allowed flag and the same usage as the first and leaves the caller's
\* committed record as the first call left it.
C11_Idempotent ==
    (lastCall.op = "check" /\ lastCall.prior.seen)
    => (/\ lastCall.ret[1] = lastCall.prior.ret[1]
        /\ lastCall.ret[3] = lastCall.prior.ret[3]
        /\ Stored = lastCall.prior.stored)

C11_Witness ==
    /\ lastCall.op = "check"
    /\ lastCall.prior.seen
    /\ lastCall.prior.reset.daily
    /\ lastCall.prior.ret[1] = FALSE
    /\ lastCall.ret[1] = FALSE
    /\ lastCall.ret[3].daily_used = 0
    /\ Stored = lastCall.prior.stored

\* C19: on the record as it stands after the resets, check_rate_limit denies
\* with the daily message exactly when daily_message_count >= daily_limit;
\* otherwise it denies with the monthly message exactly when
\* monthly_message_count >= monthly_limit; otherwise it allows.  With both
\* limits reached the daily message is the one returned.
C19_Admission ==
    lastCall.op = "check"
    => LET daily_reached == Stored.daily_message_count >= daily_limit
           monthly_reached == Stored.monthly_message_count >= monthly_limit
       IN /\ (lastCall.ret[1] = FALSE /\ lastCall.ret[2] = DailyMessage)
                <=> daily_reached
          /\ (lastCall.ret[1] = FALSE /\ lastCall.ret[2] = MonthlyMessage)
                <=> (~daily_reached /\ monthly_reached)
          /\ (lastCall.ret[1] = TRUE /\ lastCall.ret[2] = AllowedMessage)
                <=> (~daily_reached /\ ~monthly_reached)
          /\ lastCall.ret[3].daily_used = Stored.daily_message_count
          /\ lastCall.ret[3].monthly_used = Stored.monthly_message_count

C19_Witness ==
    /\ lastCall.op = "check"
    /\ Stored.daily_message_count >= daily_limit
    /\ Stored.monthly_message_count >= monthly_limit
    /\ lastCall.ret[1] = FALSE
    /\ lastCall.ret[2] = DailyMessage

\* C20: when a check_rate_limit zeroes a counter at a day or month boundary,
\* the committed record holds the zeroed counter, and for a daily reset the
\* new last_reset_date, when the call has returned, whether it allowed or
\* denied; the usage it returns is that of the committed record.
C20_RolloverPersisted ==
    lastCall.op = "check"
    => /\ lastCall.reset.daily
          => /\ Stored.daily_message_count = 0
             /\ Stored.last_reset_date = lastCall.now1
       /\ lastCall.reset.monthly => Stored.monthly_message_count = 0
       /\ (lastCall.reset.daily \/ lastCall.reset.monthly)
          => /\ lastCall.ret[3].daily_used = Stored.daily_message_count
             /\ lastCall.ret[3].monthly_used = Stored.monthly_message_count

C20_Witness ==
    /\ lastCall.op = "check"
    /\ lastCall.reset.daily
    /\ lastCall.before.daily_message_count = daily_limit
    /\ lastCall.ret[1] = FALSE
    /\ Stored.daily_message_count = 0
    /\ Stored.last_reset_date = lastCall.now1
    /\ Stored.last_reset_date > lastCall.before.last_reset_date

(***************************************************************************)
(* Properties of the truncation in get_chat_completion.                    *)
(***************************************************************************)
\* The words of the content the provider answered, and of the text returned.
ContentWords == split(completion.content.str)
AnswerWords == split(completion.answer.str)

\* The sequence out is made of the first words of the sequence in.
FirstWordsOf(out, in) ==
    /\ Len(out) <= Len(in)
    /\ \A k \in 1..Len(out) : out[k] = in[k]

\* C12: for a generated text, the text returned has at most max_words words,
\* and they are the first words of the generated text.
C12_TruncationBound ==
    (completion.pc = "returned" /\ ~completion.content.is_none)
    => (/\ ~completion.answer.is_none
        /\ LET out == AnswerWords
           IN /\ Len(out) <= max_words
              /\ FirstWordsOf(out, ContentWords))

\* The last of the first max_words words that ends with a full stop, 0 when
\* none does.
LastStop(words) ==
    LET ends == {k \in 1..max_words :
                    /\ k <= Len(words)
                    /\ Char(words[k], Len(words[k])) = "."}
    IN IF ends = {} THEN 0 ELSE CHOOSE k \in ends : \A j \in ends : j <= k

\* Every full stop of the words ends a word.
StopsEndWords(words) ==
    \A k \in 1..Len(words) : rfind(words[k], ".") \in {-1, Len(words[k]) - 1}

\* C13: for a generated text of more than max_words words, the text returned
\* is the first words up to the last full stop when that full stop ends one
\* of the words 180..300 (60% of max_words onwards), and otherwise exactly the
\* first max_words words; it never has fewer than 180 words.
C13_CutPoint ==
    (completion.pc = "returned" /\ ~completion.content.is_none)
    => LET in == ContentWords
           stop == LastStop(in)
       IN (Len(in) > max_words /\ StopsEndWords(in))
          => (/\ Len(AnswerWords) >= (max_words * 6) \div 10
              /\ completion.answer.str =
                    JoinFirst(in, IF stop >= (max_words * 6) \div 10
                                  THEN stop ELSE max_words))

\* C14: a generated text of at most max_words words, an empty text and an
\* absent one are returned as they are.
C14_Identity ==
    (/\ completion.pc = "returned"
     /\ \/ ~Truthy(completion.content)
        \/ Len(ContentWords) <= max_words)
    => completion.answer = completion.content

C14_Witness ==
    /\ completion.pc = "returned"
    /\ Truthy(completion.content)
    /\ completion.answer = completion.content
    /\ Char(completion.content.str, Len(completion.content.str)) = "\n"
    /\ LET in == ContentWords
       IN Len(in) = max_words /\ LastStop(in) = 290

\* C28: the max_tokens passed to the completion call is the configured value
\* when that is at least 480, and 480 otherwise; it is never below 480.
C28_TokenFloor ==
    completion.pc # "none"
    => (/\ completion.max_tokens >= 480
        /\ completion.configured >= 480
           => completion.max_tokens = completion.configured
        /\ completion.configured < 480 => completion.max_tokens = 480
        /\ completion.max_tokens \in {completion.configured, 480})

C28_Witness ==
    /\ completion.pc = "returned"
    /\ completion.configured = -1
    /\ completion.max_tokens = 480
    /\ Truthy(completion.answer)

\* C29 as claimed: the text of a source entry has at most 200 characters, and
\* is the document's text when that has 200 characters or fewer.
C29_PreviewAtMost200 ==
    preview.pc = "built"
    => (/\ Len(preview.entry.text) <= 200
        /\ Len(preview.doc.text) <= 200 => preview.entry.text = preview.doc.text)

\* C29 as amended: the text of a source entry is the document's text when
\* that has 200 characters or fewer, and otherwise its first 200 characters
\* followed by "...", 203 characters in all; source and score are the
\* document's.
C29_PreviewLength ==
    preview.pc = "built"
    => (/\ Len(preview.doc.text) <= 200 => preview.entry.text = preview.doc.text
        /\ Len(preview.doc.text) > 200
           => /\ Len(preview.entry.text) = 203
              /\ SubSeq(preview.entry.text, 1, 200) = SubSeq(preview.doc.text, 1, 200)
              /\ SubSeq(preview.entry.text, 201, 203) = "..."
        /\ preview.entry.source = preview.doc.source
        /\ preview.entry.score = preview.doc.score)

C29_Witness ==
    /\ preview.pc = "built"
    /\ Len(preview.doc.text) = 201
    /\ Len(preview.entry.text) = 203
    /\ preview.entry.text = Repeat("a", 200) \o "..."
    /\ preview.entry.source = "unknown"

\* C30: a call of search_similar or upsert_documents attempts the connection
\* exactly when no earlier call's initialization has succeeded, so the first
\* call attempts it and at most one initialization ever succeeds; an
\* initialization that raised leaves _initialized false and makes its call
\* raise, and one that succeeded leaves it true.
C30_LazyInitOnce ==
    store.op # "none"
    => (/\ store.attempted <=> (store.succeeded_before = 0)
        /\ store.calls = 1 => store.attempted
        /\ store.succeeded <= 1
        /\ pine._initialized <=> (store.succeeded = 1)
        /\ (store.attempted /\ store.init_raised)
           => (~pine._initialized /\ store.raised)
        /\ (store.attempted /\ ~store.init_raised) => pine._initialized)

C30_Witness ==
    /\ store.op = "upsert"
    /\ store.calls >= 3
    /\ store.failures >= 1
    /\ store.succeeded_before = 1
    /\ ~store.attempted
    /\ ~store.raised
    /\ pine._initialized

\* C16: a request answered with status 200 carries one entry of sources per
\* document search_similar returned, in the order returned, each with the
\* source and the score of its document, and its question field is the
\* question of the request, character for character.
C16_ResponseAssembly ==
    (chat.pc = "done" /\ chat.response.status_code = 200)
    => (/\ Len(chat.response.sources) = Len(chat.docs)
        /\ \A i \in 1..Len(chat.docs) :
              /\ chat.response.sources[i].source = chat.docs[i].source
              /\ chat.response.sources[i].score = chat.docs[i].score
        /\ chat.response.question = chat.question)

C16_Witness ==
    /\ chat.pc = "done"
    /\ chat.response.status_code = 200
    /\ Len(chat.docs) = 2
    /\ chat.response.sources[1].score = 90
    /\ chat.response.sources[1].source = "trinity.txt"
    /\ chat.response.sources[2].score = 80
    /\ chat.response.sources[2].source = "unknown"
    /\ chat.response.question = " Who is Jesus?\n"

\* C27: a check_rate_limit or increment_usage changes no record but the one
\* of its caller: every record with another user id keeps its counts and its
\* last_reset_date, no record is removed, and a record is added only for a
\* caller that had none; the record the call works on is the caller's, the
\* same one at every call.
C27_KeyedByIdentity ==
    [][lastCall'.op \in {"check", "increment"}
       => LET user_id == _get_user_hash(lastCall'.user_identifier)
          IN /\ Len(table') >= Len(table)
             /\ \A i \in 1..Len(table) :
                   /\ table'[i].user_id = table[i].user_id
                   /\ table[i].user_id # user_id => table'[i] = table[i]
             /\ \A i \in (Len(table) + 1)..Len(table') :
                   /\ table'[i].user_id = user_id
                   /\ \A j \in 1..Len(table) : table[j].user_id # user_id
             /\ lastCall'.before.user_id = user_id
             /\ \E i \in 1..Len(table') : table'[i].user_id = user_id]_vars

C27_Witness ==
    /\ lastCall.op = "increment"
    /\ ~lastCall.created
    /\ Len(table) = 2
    /\ table[1].user_id # table[2].user_id
    /\ table[1].user_id = _get_user_hash("10.0.0.1")
    /\ lastCall.user_identifier = "10.0.0.2"
    /\ table[2].daily_message_count = 2
    /\ table[1].daily_message_count = daily_limit
    /\ table[1].last_reset_date < table[2].last_reset_date

\* The step is a call of the one operation right after a call of the other,
\* for the same caller, with every clock read of both on the same day.
SameInstant(first, second) ==
    /\ lastCall.op = first
    /\ lastCall'.op = second
    /\ lastCall'.user_identifier = lastCall.user_identifier
    /\ lastCall.now1 = lastCall.now2
    /\ lastCall'.now1 = lastCall.now2
    /\ lastCall'.now2 = lastCall.now2

\* C25: get_usage_stats changes no committed record (it may add the record
\* of a new caller, with both counts 0); the daily_used and monthly_used it
\* reports are those a check_rate_limit at the same instant reports; and its
\* remaining counts are max(0, limit - used).
C25_StatsReadOnly ==
    /\ [][/\ lastCall'.op = "stats"
             => /\ \A i \in 1..Len(table) : table'[i] = table[i]
                /\ \A i \in (Len(table) + 1)..Len(table') :
                      /\ table'[i].daily_message_count = 0
                      /\ table'[i].monthly_message_count = 0
          /\ SameInstant("stats", "check")
             => /\ lastCall'.ret[3].daily_used = lastCall.ret.daily_used
                /\ lastCall'.ret[3].monthly_used = lastCall.ret.monthly_used
          /\ SameInstant("check", "stats")
             => /\ lastCall'.ret.daily_used = lastCall.ret[3].daily_used
                /\ lastCall'.ret.monthly_used = lastCall.ret[3].monthly_used]_vars
    /\ [](lastCall.op = "stats"
          => /\ lastCall.ret.daily_remaining
                   = Max(0, daily_limit - lastCall.ret.daily_used)
             /\ lastCall.ret.monthly_remaining
                   = Max(0, monthly_limit - lastCall.ret.monthly_used)
             /\ lastCall.ret.daily_remaining >= 0
             /\ lastCall.ret.monthly_remaining >= 0)

C25_Witness ==
    /\ lastCall.op = "stats"
    /\ ~lastCall.created
    /\ lastCall.before.last_reset_date < lastCall.now1
    /\ lastCall.before.daily_message_count = daily_limit + 1
    /\ lastCall.ret.daily_used = 0
    /\ lastCall.ret.monthly_used = monthly_limit + 1
    /\ lastCall.ret.monthly_remaining = 0
    /\ Stored = lastCall.before

(***************************************************************************)
(* Properties of the ledger under concurrent sessions.                     *)
(***************************************************************************)
\* C23: the table never holds two records with the same user id, also when
\* two sessions make their first call for one user at the same time.
C23_OneRecordPerUser ==
    \A i, j \in 1..Len(table) : table[i].user_id = table[j].user_id => i = j

\* The step completes an increment_usage on a record that needs no rollover.
IncrementCompletes(s) ==
    /\ sessions[s].pc = "loaded"
    /\ sessions[s].op = "increment"
    /\ sessions'[s].pc = "returned"
    /\ table[sessions[s].row].last_reset_date = clock

\* C24: every increment_usage that completes leaves the committed daily and
\* monthly counts of its record one higher than they were committed before
\* it, whatever other sessions did meanwhile, and once a user has K completed
\* increments today the committed daily count of its record is K.
C24_NoLostUpdate ==
    /\ [][\A s \in Sessions :
            IncrementCompletes(s)
            => LET r == sessions[s].row
               IN /\ table'[r].daily_message_count =
                        table[r].daily_message_count + 1
                  /\ table'[r].monthly_message_count =
                        table[r].monthly_message_count + 1]_vars
    /\ [](\A u \in UserIds :
            incToday[u] >= 1
            => table[FirstRow(table, u)].daily_message_count = incToday[u])

(***************************************************************************)
(* Properties of _get_user_key.                                            *)
(***************************************************************************)
\* C15: _get_user_key returns a token for every request: the first
\* comma-separated entry of the x-forwarded-for header, trimmed, when the
\* header has a value; otherwise the address of the peer; otherwise, also
\* when the request has no client, "unknown".
C15_UserKey ==
    identity.pc = "called"
    => (/\ ~identity.out.raised
        /\ identity.out.key =
              IF Truthy(identity.req.x_forwarded_for)
              THEN strip(UpToComma(identity.req.x_forwarded_for.str, 1))
              ELSE IF identity.req.has_client /\ Truthy(identity.req.host)
                   THEN identity.req.host.str
                   ELSE "unknown")

(***************************************************************************)
(* Properties of the /chat pipeline.                                       *)
(***************************************************************************)
\* The request was denied at the limit checks.
Denied ==
    /\ chat.pc = "done"
    /\ chat.user_key # ""
    /\ \/ chat.admitted.day >= MAX_MESSAGES_PER_DAY
       \/ chat.admitted.month >= MAX_MESSAGES_PER_MONTH

\* C4: a /chat request of a caller whose day counter has reached
\* MAX_MESSAGES_PER_DAY or whose month counter has reached
\* MAX_MESSAGES_PER_MONTH is answered with status 429 and the daily or the
\* monthly limit reason.
C4_QuotaStatus ==
    Denied
    => (/\ chat.response.status_code = 429
        /\ chat.response.detail =
              IF chat.admitted.day >= MAX_MESSAGES_PER_DAY
              THEN DailyDetail ELSE MonthlyDetail)

\* C5: the counters of the caller stay as the limit checks read them while
\* the request is in the pipeline and when it ends denied or with embedding or
\* completion having raised; when it ends with an answer, both are one higher.
C5_UsageAfterSuccess ==
    /\ chat.pc \in {"embed", "search", "generate"}
       => USAGE[chat.user_key] = chat.admitted
    /\ (chat.pc = "done" /\ chat.exc.class \in {"HTTPException", "Exception"})
       => /\ chat.response.status_code = 500
          /\ USAGE[chat.user_key] = chat.admitted
    /\ (chat.pc = "done" /\ chat.response.status_code = 200)
       => /\ ~chat.response.answer.is_none
          /\ USAGE[chat.user_key] = [day |-> chat.admitted.day + 1,
                                     month |-> chat.admitted.month + 1]

C5_Witness ==
    /\ chat.pc = "done"
    /\ chat.exc.class = "Exception"
    /\ chat.calls = <<"embed", "search", "generate">>
    /\ chat.admitted = [day |-> 1, month |-> 1]
    /\ USAGE[chat.user_key] = chat.admitted

\* C6: when search_similar raises, the request goes on to the completion with
\* the fallback context and no sources; the exception is never the one the
\* request ends with, and unless the completion fails the request ends with
\* status 200 and the answer.
C6_SearchTolerated ==
    chat.search_exc # NoException
    => (/\ chat.pc \in {"generate", "done"}
        /\ chat.context = FallbackContext
        /\ chat.sources = <<>>
        /\ chat.exc # chat.search_exc
        /\ chat.pc = "done"
           => /\ Len(chat.calls) >= 3
              /\ chat.calls[3] = "generate"
              /\ chat.exc = NoException
                 => /\ chat.response.status_code = 200
                    /\ Truthy(chat.response.answer) \/ chat.response.answer = Str("")
                    /\ chat.response.sources = <<>>)

C6_Witness ==
    /\ chat.search_exc # NoException
    /\ chat.pc = "done"
    /\ chat.response.status_code = 200
    /\ chat.response.answer = Str(ShortAnswer)
    /\ chat.response.sources = <<>>

\* C7 as claimed: when a call of the provider fails, search_similar answers
\* with an empty sequence and no exception reaches its caller.
C7_NeverRaises ==
    (chat.pc \in {"generate", "done"} /\ chat.provider_failed)
    => chat.search_exc = NoException

\* C7 as amended: search_similar raises to its caller exactly when a call of
\* the provider it reaches raises, and then the one exception "Error searching
\* Pinecone: ..."; otherwise it returns one document per match.
C7_WrapsAndRaises ==
    chat.pc \in {"generate", "done"}
    => /\ (chat.search_exc # NoException) <=> chat.provider_failed
       /\ chat.provider_failed
          => /\ chat.search_exc = SearchError
             /\ chat.search_exc.class = "Exception"

C7_Witness ==
    /\ chat.pc = "generate"
    /\ chat.provider_failed
    /\ pine._initialized
    /\ chat.search_exc = SearchError

\* C26: the key under which /chat keeps the counters of a request's caller
\* is the hash of the caller's token (16 hexadecimal characters of its
\* SHA-256), never the token itself.
C26_HashedKeys ==
    (chat.pc # "idle" /\ chat.user_key # "")
    => (/\ chat.user_key \in DOMAIN USAGE
        /\ \E token \in Identifiers :
              /\ chat.user_key = _get_user_hash(token)
              /\ chat.user_key # token)

\* The calls of the pipeline in the order of the handler's lines 81-119.
PipelineOrder == <<"embed", "search", "generate", "increment">>

\* C21: a request denied at the limit checks has made no embedding, search
\* or completion call and leaves the caller's counters as it found them; the
\* calls of every other request are, in order, embed, search, generate and
\* the increment, as far as the request got.
C21_DenialShortCircuits ==
    /\ Denied => /\ chat.calls = <<>>
                 /\ USAGE[chat.user_key] = chat.admitted
    /\ /\ Len(chat.calls) <= Len(PipelineOrder)
       /\ chat.calls = SubSeq(PipelineOrder, 1, Len(chat.calls))
    /\ (chat.pc = "done" /\ chat.response.status_code = 200)
       => chat.calls = PipelineOrder

C21_Witness ==
    /\ Denied
    /\ chat.admitted.day < MAX_MESSAGES_PER_DAY
    /\ chat.admitted.month = MAX_MESSAGES_PER_MONTH
    /\ nServed >= 1
    /\ chat.calls = <<>>
    /\ USAGE[chat.user_key] = chat.admitted

\* C22: when get_embeddings or get_chat_completion raises, the request is
\* over: the call that raised is the last call it made, it is answered with
\* status 500 and without an answer, and the exception it ends with is the
\* one the call raised.
C22_OpenAIFailureFatal ==
    chat.failed_call # ""
    => (/\ chat.pc = "done"
        /\ chat.calls[Len(chat.calls)] = chat.failed_call
        /\ chat.calls = SubSeq(PipelineOrder, 1, Len(chat.calls))
        /\ chat.response.status_code = 500
        /\ chat.response.answer = None
        /\ chat.response.sources = <<>>
        /\ chat.exc.class = "Exception"
        /\ chat.response.detail = "Error processing chat request: " \o chat.exc.str
        /\ USAGE[chat.user_key] = chat.admitted)

C22_Witness ==
    /\ chat.pc = "done"
    /\ chat.failed_call = "embed"
    /\ chat.calls = <<"embed">>
    /\ chat.response.status_code = 500
    /\ chat.response.detail =
          "Error processing chat request: Error generating embeddings: Connection error."

\* A request is past the limit checks and before its increments.
InFlight == chat.pc \in {"embed", "search", "generate"}

C18_OvershootBound ==
    \A k \in DOMAIN USAGE :
        USAGE[k].day <= MAX_MESSAGES_PER_DAY + MaxInFlight - 1

C18_Witness ==
    /\ chat.pc = "done"
    /\ chat.response.status_code = 200
    /\ chat.admitted.day = MAX_MESSAGES_PER_DAY - 1
    /\ USAGE[chat.user_key].day = MAX_MESSAGES_PER_DAY + MaxInFlight - 1

\* The terminal outcomes the request handled last has reached.
Outcomes ==
    {o \in {"denied", "answered", "error"} :
        /\ chat.pc = "done"
        /\ \/ o = "denied" /\ Denied
           \/ o = "answered" /\ chat.response.status_code = 200
           \/ o = "error" /\ chat.exc # NoException /\ chat.exc.status_code # 429}

\* C32: when each of the embedding, search and completion calls returns or
\* raises, every request past the limit checks comes to its end; a request
\* has a response only at its end, and a request at its end has exactly one
\* of the outcomes denied, answered and error.
C32_Terminates ==
    /\ InFlight ~> chat.pc = "done"
    /\ [](chat.pc # "done" => /\ Outcomes = {}
                              /\ chat.response = NoResponse)
    /\ [](chat.pc = "done" => /\ Cardinality(Outcomes) = 1
                              /\ chat.response # NoResponse)

C32_Witness ==
    /\ chat.pc = "done"
    /\ Outcomes = {"error"}
    /\ chat.calls = <<"embed", "search", "generate">>
    /\ chat.failed_call = "generate"
    /\ ~chat.provider_failed
    /\ chat.response.status_code = 500
    /\ nServed >= 1

(***************************************************************************)
(* Properties of chunk_text.                                               *)
(***************************************************************************)
\* chunk_size >= 1 and 0 <= overlap < chunk_size
ChunkArgsValid ==
    /\ chunker.chunk_size >= 1
    /\ 0 <= chunker.overlap
    /\ chunker.overlap < chunker.chunk_size

\* Position p of the text (from 1) lies in chunk i, and the chunk has the
\* text's character there.
InChunk(p, i) ==
    /\ chunker.starts[i] < p
    /\ p <= chunker.starts[i] + Len(chunker.chunks[i])
    /\ Char(chunker.chunks[i], p - chunker.starts[i]) = Char(chunker.text, p)

\* C33: with chunk_size >= 1 and 0 <= overlap < chunk_size, a chunk_text
\* call returns; every pass through the loop leaves start higher than it
\* found it; and every character position of the text lies in one of the
\* returned chunks.
C33_ChunkTextTerminates ==
    /\ (chunker.pc = "loop" /\ ChunkArgsValid) ~> chunker.pc = "done"
    /\ [][(/\ chunker.pc = "loop"
            /\ ChunkArgsValid
            /\ Len(chunker'.chunks) = Len(chunker.chunks) + 1)
           => chunker'.start > chunker.start]_vars
    /\ []((chunker.pc = "done" /\ ChunkArgsValid)
          => \A p \in 1..Len(chunker.text) :
                \E i \in 1..Len(chunker.chunks) : InChunk(p, i))

C33_Witness ==
    /\ chunker.pc = "done"
    /\ ChunkArgsValid
    /\ chunker.text = "abcde"
    /\ chunker.chunk_size = 3
    /\ chunker.overlap = 2
    /\ chunker.chunks = <<"abc", "bcd", "cde", "de", "e">>
    /\ chunker.start = 5

====
